---- MODULE Spec2Model ----
(***************************************************************************)
(* A model of CodeTranslator: the rule-based Python-to-{Go, PHP,           *)
(* JavaScript, C#} translator of src/src/App.jsx and of its earlier        *)
(* revision with library integration, src/unnamed/part_000.                *)
(*                                                                         *)
(* A text is a sequence of one-character strings.  The JavaScript regular  *)
(* expressions of the source are written as records and run by a          *)
(* backtracking matcher with the semantics of RegExp for the constructs    *)
(* the source uses (literals, character classes, greedy and lazy           *)
(* quantifiers, capture groups), and String.prototype.replace is modelled  *)
(* with its "$$" / "$n" replacement patterns.  The three-target sketch     *)
(* appended to App.jsx (translateCode) and the status line of part_000     *)
(* are left out.                                                           *)
(***************************************************************************)
EXTENDS Integers, Sequences, FiniteSets, TLC

(***************************************************************************)
(* Characters and character classes                                        *)
(***************************************************************************)
Digit == {"0","1","2","3","4","5","6","7","8","9"}

Lower == {"a","b","c","d","e","f","g","h","i","j","k","l","m",
          "n","o","p","q","r","s","t","u","v","w","x","y","z"}

Upper == {"A","B","C","D","E","F","G","H","I","J","K","L","M",
          "N","O","P","Q","R","S","T","U","V","W","X","Y","Z"}

\* \w, \s, \d, "." and [^)] of the source's regular expressions
ClsW == [set |-> Digit \cup Lower \cup Upper \cup {"_"}, neg |-> FALSE]

ClsS == [set |-> {" ", "\n", "\t", "\r"}, neg |-> FALSE]

ClsD == [set |-> Digit, neg |-> FALSE]

ClsDot == [set |-> {"\n", "\r"}, neg |-> TRUE]

ClsNotParen == [set |-> {")"}, neg |-> TRUE]

InClass(c, cls) == (c \in cls.set) # cls.neg

(***************************************************************************)
(* String.prototype helpers                                                *)
(***************************************************************************)
\* ss[i], or the empty text past the end of ss
Piece(ss, i) == IF i <= Len(ss) THEN ss[i] ELSE <<>>

RECURSIVE Flatten(_)
\* the concatenation of a sequence of texts, eight at a time
Flatten(ss) ==
    IF Len(ss) <= 8
    THEN ((Piece(ss, 1) \o Piece(ss, 2)) \o (Piece(ss, 3) \o Piece(ss, 4)))
         \o ((Piece(ss, 5) \o Piece(ss, 6)) \o (Piece(ss, 7) \o Piece(ss, 8)))
    ELSE Flatten([b \in 1..((Len(ss) + 7) \div 8) |->
                    Flatten(SubSeq(ss, 8 * b - 7, IF 8 * b < Len(ss) THEN 8 * b ELSE Len(ss)))])

\* text.includes(s)
Includes(text, s) ==
    \E p \in 1..(Len(text) - Len(s) + 1) : SubSeq(text, p, p + Len(s) - 1) = s

\* text.endsWith(s)
EndsWith(text, s) ==
    /\ Len(s) <= Len(text)
    /\ SubSeq(text, Len(text) - Len(s) + 1, Len(text)) = s

\* text.trim()
Trim(text) ==
    LET keep == {i \in 1..Len(text) : ~InClass(text[i], ClsS)}
    IN  IF keep = {} THEN <<>>
        ELSE LET lo == CHOOSE i \in keep : \A j \in keep : i <= j
                 hi == CHOOSE i \in keep : \A j \in keep : j <= i
             IN  SubSeq(text, lo, hi)

\* (text.match(/c/g) || []).length for a single character c
CountChar(text, c) == Cardinality({i \in 1..Len(text) : text[i] = c})

\* text.split(c) for a single character c
Split(text, c) ==
    LET cuts == {i \in 1..Len(text) : text[i] = c}
        n    == Cardinality(cuts)
        \* the position of the k-th separator; 0 and Len+1 bracket the text
        at(k) == IF k = 0 THEN 0
                 ELSE IF k = n + 1 THEN Len(text) + 1
                 ELSE CHOOSE i \in cuts : Cardinality({j \in cuts : j < i}) = k - 1
    IN  [k \in 1..(n + 1) |-> SubSeq(text, at(k - 1) + 1, at(k) - 1)]

\* parts.join(sep)
Join(parts, sep) ==
    Flatten([k \in 1..Len(parts) |-> IF k = 1 THEN parts[k] ELSE sep \o parts[k]])

\* the array returned by parts.map(s => s.trim())
MapTrim(parts) == [k \in 1..Len(parts) |-> Trim(parts[k])]

\* String.prototype.repeat: a negative count raises RangeError
RepeatThrows(n) == n < 0

Repeat(c, n) == [i \in 1..n |-> c]

(***************************************************************************)
(* Regular expressions.  Every pattern of the source is a chain of         *)
(* literals and quantified character classes, so a pattern is written as   *)
(*   [steps, tail, atEnd]                                                   *)
(* where a step is a literal followed by a quantified class,               *)
(*   [pre, pregroup, cls, min, max, lazy, group],                          *)
(* tail is the literal after the last class and atEnd tells whether the    *)
(* pattern ends with the anchor $.  group is the number of the capture     *)
(* group around the class and pregroup the one around the literal (0: no   *)
(* group); max = -1 stands for "no upper limit".                           *)
(***************************************************************************)
Quant(cls, min, max, lazy) ==
    [cls |-> cls, min |-> min, max |-> max, lazy |-> lazy, group |-> 0]

\* cls*, cls+, cls*? and c? for a literal character c
Star(cls) == Quant(cls, 0, -1, FALSE)

Plus(cls) == Quant(cls, 1, -1, FALSE)

LazyStar(cls) == Quant(cls, 0, -1, TRUE)

Opt(c) == Quant([set |-> {c}, neg |-> FALSE], 0, 1, FALSE)

\* capture group g around the quantified class q
Group(g, q) == [q EXCEPT !.group = g]

\* the literal pre followed by the quantified class q
Seg(pre, q) == [pre |-> pre, pregroup |-> 0] @@ q

\* the same with capture group g around the literal
GroupSeg(g, pre, q) == [pre |-> pre, pregroup |-> g] @@ q

Regex(steps, tail) == [steps |-> steps, tail |-> tail, atEnd |-> FALSE]

\* a pattern that ends with the anchor $ (without the m flag: the end of the text)
RegexToEnd(steps, tail) == [steps |-> steps, tail |-> tail, atEnd |-> TRUE]

NoMatch == [ok |-> FALSE, end |-> 0, spans |-> <<>>]

\* text has the literal s at position pos
StartsAt(text, pos, s) ==
    /\ pos + Len(s) - 1 <= Len(text)
    /\ SubSeq(text, pos, pos + Len(s) - 1) = s

\* how many characters from pos on are in the step's class (at most its max)
RunLen(step, text, pos) ==
    LET most == IF step.max = -1 \/ Len(text) - pos + 1 < step.max
                THEN Len(text) - pos + 1 ELSE step.max
    IN  CHOOSE r \in 0..most :
           /\ r = most \/ ~InClass(text[pos + r], step.cls)
           /\ \A q \in 0..(r - 1) : InClass(text[pos + q], step.cls)

\* the lengths the step's class can take when the step starts at pos: none when its
\* literal is not there
Lengths(step, text, pos) ==
    IF StartsAt(text, pos, step.pre)
    THEN step.min..RunLen(step, text, pos + Len(step.pre))
    ELSE {}

\* the match of the pattern's end at pos
Finish(pat, text, pos) ==
    IF StartsAt(text, pos, pat.tail) /\ (pat.atEnd => pos + Len(pat.tail) = Len(text) + 1)
    THEN [ok |-> TRUE, end |-> pos + Len(pat.tail), spans |-> <<>>]
    ELSE NoMatch

\* backtracking: the class, which starts at from, takes the first length in its order
\* of preference (a greedy one its longest, a lazy one its shortest) with which the
\* rest of the pattern matches; tries[l] is the match of the rest after length l
Extend(step, from, tries) ==
    LET oks == {l \in DOMAIN tries : tries[l].ok}
        l   == IF step.lazy THEN CHOOSE x \in oks : \A y \in oks : x <= y
               ELSE CHOOSE x \in oks : \A y \in oks : x >= y
    IN  IF oks = {} THEN NoMatch
        ELSE [ok |-> TRUE, end |-> tries[l].end,
              spans |-> <<[from |-> from, to |-> from + l]>> \o tries[l].spans]

RECURSIVE MatchAt(_, _, _, _)
\* the match of steps k.. of pat at position pos: where it ends and the span of text
\* each class has taken
MatchAt(pat, k, text, pos) ==
    IF k > Len(pat.steps) THEN Finish(pat, text, pos)
    ELSE Extend(pat.steps[k], pos + Len(pat.steps[k].pre),
                [l \in Lengths(pat.steps[k], text, pos) |->
                   MatchAt(pat, k + 1, text, pos + Len(pat.steps[k].pre) + l)])

\* regex.test(text) for a pattern without the anchor ^
Test(pat, text) == \E p \in 1..(Len(text) + 1) : MatchAt(pat, 1, text, p).ok

\* /^pat/.test(text): the anchor ^ lets the match start only at the first character
TestAtStart(pat, text) == MatchAt(pat, 1, text, 1).ok

\* the texts of capture groups 1..3 of a match with the given spans
Groups(pat, text, spans) ==
    [g \in 1..3 |->
       IF \E k \in DOMAIN pat.steps : pat.steps[k].group = g
       THEN LET k == CHOOSE j \in DOMAIN pat.steps : pat.steps[j].group = g
            IN  SubSeq(text, spans[k].from, spans[k].to - 1)
       ELSE IF \E k \in DOMAIN pat.steps : pat.steps[k].pregroup = g
       THEN pat.steps[CHOOSE j \in DOMAIN pat.steps : pat.steps[j].pregroup = g].pre
       ELSE <<>>]

\* the number of capture groups of a pattern
NumGroups(pat) ==
    Cardinality({k \in DOMAIN pat.steps : pat.steps[k].group > 0})
    + Cardinality({k \in DOMAIN pat.steps : pat.steps[k].pregroup > 0})

\* the first position from `from` on where the pattern matches, or 0
NextHit(at, from) ==
    IF \A p \in DOMAIN at : p < from \/ ~at[p].ok THEN 0
    ELSE CHOOSE p \in DOMAIN at :
            /\ p >= from /\ at[p].ok
            /\ \A q \in from..(p - 1) : ~at[q].ok

\* where the scan resumes after the match at p: at its end, one further when it is empty
Resume(at, p) == IF at[p].end > p THEN at[p].end ELSE p + 1

RECURSIVE Walk(_, _, _, _)
\* the match at p followed by the matches after it; p = 0: there is none
Collect(pat, text, at, p) ==
    IF p = 0 THEN <<>>
    ELSE <<[start |-> p, end |-> at[p].end, groups |-> Groups(pat, text, at[p].spans)]>>
         \o Walk(pat, text, at, Resume(at, p))

\* the successive matches of a /g scan: each search resumes where the last match ended
Walk(pat, text, at, from) == Collect(pat, text, at, NextHit(at, from))

\* the matches of /pat/g in text, left to right (String.prototype.matchAll)
Matches(pat, text) ==
    Walk(pat, text, [p \in 1..(Len(text) + 1) |-> MatchAt(pat, 1, text, p)], 1)

\* the arguments a replacement callback gets: the texts of the capture groups
Captures == Seq(Seq(STRING))

\* text with each match of ms replaced by what fn gives for its capture groups
Splice(text, ms, fn) ==
    Flatten([i \in 1..Len(ms) |->
               SubSeq(text, IF i = 1 THEN 1 ELSE ms[i - 1].end, ms[i].start - 1)
               \o fn[ms[i].groups]])
    \o SubSeq(text, IF Len(ms) = 0 THEN 1 ELSE ms[Len(ms)].end, Len(text))

\* text.replace(/pat/g, fn): the callback fn, a function on Captures, gets the capture
\* groups of each match
ReplaceFn(pat, text, fn) ==
    IF text = <<>> THEN Splice(<<>>, Matches(pat, <<>>), fn)
    ELSE Splice(text, Matches(pat, text), fn)

\* GetSubstitution for a replacement string: "$$" is a dollar sign, "$n" is capture
\* group n when the pattern has n groups, everything else is literal.  A "$" opens
\* such a pair unless it is itself the second character of one.
Subst(tpl, g, ng) ==
    LET \* the number of "$" right before position i
        dollars(i) == CHOOSE r \in 0..(i - 1) :
                         /\ r = i - 1 \/ tpl[i - 1 - r] # "$"
                         /\ \A q \in 1..r : tpl[i - q] = "$"
        digit(c) == IF c = "1" THEN 1 ELSE IF c = "2" THEN 2 ELSE IF c = "3" THEN 3 ELSE 0
        \* the positions that open a pair "$$" or "$n"
        pairs == {i \in 1..(Len(tpl) - 1) :
                    /\ tpl[i] = "$"
                    /\ dollars(i) % 2 = 0
                    /\ tpl[i + 1] = "$" \/ digit(tpl[i + 1]) \in 1..ng}
        \* the k-th of them; the 0-th stands right before the template
        at(k) == IF k = 0 THEN -1
                 ELSE CHOOSE i \in pairs : Cardinality({j \in pairs : j < i}) = k - 1
        value(i) == IF tpl[i + 1] = "$" THEN <<"$">> ELSE g[digit(tpl[i + 1])]
    IN  Flatten([k \in 1..Cardinality(pairs) |->
                   SubSeq(tpl, at(k - 1) + 2, at(k) - 1) \o value(at(k))])
        \o SubSeq(tpl, at(Cardinality(pairs)) + 2, Len(tpl))

\* text.replace(/pat/g, tpl) for a replacement string tpl
Replace(pat, text, tpl) ==
    IF text = <<>>
    THEN Splice(<<>>, Matches(pat, <<>>), [g \in Captures |-> Subst(tpl, g, NumGroups(pat))])
    ELSE Splice(text, Matches(pat, text), [g \in Captures |-> Subst(tpl, g, NumGroups(pat))])

(***************************************************************************)
(* The two revisions of the program                                        *)
(***************************************************************************)
\* src/src/App.jsx and src/unnamed/part_000
Versions == {"App.jsx", "part_000"}

\* the keys of the translations and validationIssues objects
Targets == {"go", "php", "javascript", "csharp"}

(***************************************************************************)
(* typeMapping and libraryMapping                                          *)
(***************************************************************************)
\* App.jsx: the table has a row for bool
typeMapping ==
    [int    |-> [go |-> <<"i","n","t">>, php |-> <<"i","n","t">>, js |-> <<"n","u","m","b","e","r">>, csharp |-> <<"i","n","t">>],
     float  |-> [go |-> <<"f","l","o","a","t","6","4">>, php |-> <<"f","l","o","a","t">>, js |-> <<"n","u","m","b","e","r">>, csharp |-> <<"d","o","u","b","l","e">>],
     string |-> [go |-> <<"s","t","r","i","n","g">>, php |-> <<"s","t","r","i","n","g">>, js |-> <<"s","t","r","i","n","g">>, csharp |-> <<"s","t","r","i","n","g">>],
     list   |-> [go |-> <<"[","]","i","n","t","e","r","f","a","c","e","{","}">>, php |-> <<"a","r","r","a","y">>, js |-> <<"A","r","r","a","y">>,
                 csharp |-> <<"L","i","s","t","<","T",">">>],
     array  |-> [go |-> <<"[","]","f","l","o","a","t","6","4">>, php |-> <<"a","r","r","a","y">>, js |-> <<"n","u","m","b","e","r","[","]">>,
                 csharp |-> <<"d","o","u","b","l","e","[","]">>],
     bool   |-> [go |-> <<"b","o","o","l">>, php |-> <<"b","o","o","l">>, js |-> <<"b","o","o","l","e","a","n">>, csharp |-> <<"b","o","o","l">>]]

\* part_000: no row for bool
typeMappingLib ==
    [int    |-> [go |-> <<"i","n","t">>, php |-> <<"i","n","t">>, js |-> <<"n","u","m","b","e","r">>, csharp |-> <<"i","n","t">>],
     float  |-> [go |-> <<"f","l","o","a","t","6","4">>, php |-> <<"f","l","o","a","t">>, js |-> <<"n","u","m","b","e","r">>, csharp |-> <<"d","o","u","b","l","e">>],
     string |-> [go |-> <<"s","t","r","i","n","g">>, php |-> <<"s","t","r","i","n","g">>, js |-> <<"s","t","r","i","n","g">>, csharp |-> <<"s","t","r","i","n","g">>],
     list   |-> [go |-> <<"[","]","i","n","t","e","r","f","a","c","e","{","}">>, php |-> <<"a","r","r","a","y">>, js |-> <<"A","r","r","a","y">>,
                 csharp |-> <<"L","i","s","t","<","T",">">>],
     array  |-> [go |-> <<"[","]","f","l","o","a","t","6","4">>, php |-> <<"a","r","r","a","y">>, js |-> <<"n","u","m","b","e","r","[","]">>,
                 csharp |-> <<"d","o","u","b","l","e","[","]">>]]

\* the same table in both revisions
libraryMapping ==
    [numpy   |-> [go |-> <<"g","o","n","u","m",".","o","r","g","/","v","1","/","g","o","n",
                           "u","m","/","m","a","t">>, php |-> <<"M","a","t","h","P","H","P","\\","L","i","n","e",
                                          "a","r","A","l","g","e","b","r","a">>,
                  javascript |-> <<"m","l","-","m","a","t","r","i","x">>, csharp |-> <<"M","a","t","h","N","e","t",".","N","u","m","e",
                                          "r","i","c","s">>],
     sklearn |-> [go |-> <<"g","i","t","h","u","b",".","c","o","m","/","s","a","j","a","r",
                           "i","/","r","e","g","r","e","s","s","i","o","n">>, php |-> <<"P","h","p","m","l","\\","P","r","e","p","r","o",
                                          "c","e","s","s","i","n","g">>,
                  javascript |-> <<"m","l","-","j","s","/","m","l">>, csharp |-> <<"M","L",".","N","E","T">>]]

(***************************************************************************)
(* ContextAnalyzer                                                         *)
(* A Map is a sequence of <<key, value>> pairs and a Set a sequence        *)
(* without repetitions, both in insertion order, as JavaScript keeps them. *)
(***************************************************************************)
\* map.has(key)
MapHas(map, key) == \E i \in 1..Len(map) : map[i][1] = key

\* map.get(key), for a key the map has
MapGet(map, key) == map[CHOOSE i \in 1..Len(map) : map[i][1] = key][2]

\* map.set(key, value): a known key keeps its place and takes the new value
MapSet(map, key, value) ==
    IF MapHas(map, key)
    THEN [i \in 1..Len(map) |-> IF map[i][1] = key THEN <<key, value>> ELSE map[i]]
    ELSE Append(map, <<key, value>>)

\* set.has(x)
SetHas(set, x) == \E i \in 1..Len(set) : set[i] = x

\* a faulty set.add(x): it appends a member the set already has
SetAddAgain(set, x) == Append(set, x)

\* set.add(x)
SetAdd(set, x) == IF SetHas(set, x) THEN set ELSE Append(set, x)

\* new ContextAnalyzer() of App.jsx
NewAnalyzer ==
    [variables |-> <<>>, functions |-> <<>>, imports |-> <<>>, dataStructures |-> <<>>,
     hasBasicOperations |-> FALSE]

\* new ContextAnalyzer() of part_000: no hasBasicOperations field
NewAnalyzerLib ==
    [variables |-> <<>>, functions |-> <<>>, imports |-> <<>>, dataStructures |-> <<>>]

\* /^\d+$/
PatInt == RegexToEnd(<<Seg(<<>>, Plus(ClsD))>>, <<>>)

\* /^\d+\.\d+$/
PatFloat == RegexToEnd(<<Seg(<<>>, Plus(ClsD)), Seg(<<".">>, Plus(ClsD))>>, <<>>)

\* inferType of App.jsx
inferType(value) ==
    IF Includes(value, <<"[","]">>) THEN "list"
    ELSE IF Includes(value, <<"n","p",".","a","r","r","a","y">>) THEN "array"
    ELSE IF TestAtStart(PatInt, Trim(value)) THEN "int"
    ELSE IF TestAtStart(PatFloat, Trim(value)) THEN "float"
    ELSE IF Includes(value, <<"\"">>) \/ Includes(value, <<"'">>) THEN "string"
    ELSE IF Includes(value, <<"T","r","u","e">>) \/ Includes(value, <<"F","a","l","s","e">>) THEN "bool"
    ELSE "unknown"

\* inferType of part_000: no rule for True / False
inferTypeLib(value) ==
    IF Includes(value, <<"[","]">>) THEN "list"
    ELSE IF Includes(value, <<"n","p",".","a","r","r","a","y">>) THEN "array"
    ELSE IF TestAtStart(PatInt, Trim(value)) THEN "int"
    ELSE IF TestAtStart(PatFloat, Trim(value)) THEN "float"
    ELSE IF Includes(value, <<"\"">>) \/ Includes(value, <<"'">>) THEN "string"
    ELSE "unknown"

\* /(\w+)\s*=\s*(.+)/g
PatVar ==
    Regex(<<Seg(<<>>, Group(1, Plus(ClsW))), Seg(<<>>, Star(ClsS)), Seg(<<"=">>, Star(ClsS)),
            Seg(<<>>, Group(2, Plus(ClsDot)))>>, <<>>)

\* /def\s+(\w+)\(/g
PatFunc == Regex(<<Seg(<<"d","e","f">>, Plus(ClsS)), Seg(<<>>, Group(1, Plus(ClsW)))>>, <<"(">>)

RECURSIVE SetVariables(_, _, _, _)
\* the loop over varMatches: this.variables.set(varName, this.inferType(value))
SetVariables(variables, code, ms, version) ==
    IF ms = <<>> THEN variables
    ELSE LET g == Head(ms).groups
             type == IF version = "App.jsx" THEN inferType(g[2]) ELSE inferTypeLib(g[2])
         IN  SetVariables(MapSet(variables, g[1], type), code, Tail(ms), version)

RECURSIVE AddFunctions(_, _, _)
\* the loop over funcMatches: this.functions.add(match[1])
AddFunctions(functions, code, ms) ==
    IF ms = <<>> THEN functions
    ELSE AddFunctions(SetAdd(functions, Head(ms).groups[1]), code, Tail(ms))

\* a faulty imports update: the MinMaxScaler test is missing
AddImportsNumpyOnly(imports, code) ==
    IF Includes(code, <<"n","p",".">>) THEN SetAdd(imports, "numpy") ELSE imports

\* the imports update, the same in both revisions
AddImports(imports, code) ==
    LET i1 == IF Includes(code, <<"n","p",".">>) THEN SetAdd(imports, "numpy") ELSE imports
    IN  IF Includes(code, <<"M","i","n","M","a","x","S","c","a","l","e","r">>) THEN SetAdd(i1, "sklearn") ELSE i1

\* the dataStructures update, the same in both revisions
AddDataStructures(dataStructures, code) ==
    IF Includes(code, <<"n","p",".","a","r","r","a","y">>)
    THEN MapSet(dataStructures, <<"n","p",".","a","r","r","a","y">>, "array")
    ELSE dataStructures

\* analyzeCode of App.jsx: the analyzer's fields after the call.  They are never
\* reset: each call adds to what the earlier calls left.
analyzeCode(self, code) ==
    [variables |-> SetVariables(self.variables, code, Matches(PatVar, code), "App.jsx"),
     functions |-> AddFunctions(self.functions, code, Matches(PatFunc, code)),
     imports |-> AddImports(self.imports, code),
     dataStructures |-> AddDataStructures(self.dataStructures, code),
     hasBasicOperations |->
        IF Includes(code, <<"p","r","i","n","t","(">>) \/ Includes(code, <<"i","n","p","u","t","(">>) \/ Includes(code, <<"l","e","n","(">>)
        THEN TRUE ELSE self.hasBasicOperations]

\* analyzeCode of part_000
analyzeCodeLib(self, code) ==
    [variables |-> SetVariables(self.variables, code, Matches(PatVar, code), "part_000"),
     functions |-> AddFunctions(self.functions, code, Matches(PatFunc, code)),
     imports |-> AddImports(self.imports, code),
     dataStructures |-> AddDataStructures(self.dataStructures, code)]

\* getVariableType: this.variables.get(varName) || 'unknown'
getVariableType(self, varName) ==
    IF MapHas(self.variables, varName) THEN MapGet(self.variables, varName) ELSE "unknown"

(***************************************************************************)
(* The regular expressions of the translators                              *)
(***************************************************************************)
\* /print\s*\((.*?)\)/g
PatPrint == Regex(<<Seg(<<"p","r","i","n","t">>, Star(ClsS)), Seg(<<"(">>, Group(1, LazyStar(ClsDot)))>>, <<")">>)

\* /input\s*\((.*?)\)/g
PatInput == Regex(<<Seg(<<"i","n","p","u","t">>, Star(ClsS)), Seg(<<"(">>, Group(1, LazyStar(ClsDot)))>>, <<")">>)

\* /len\s*\(([^)]+)\)/g
PatLen == Regex(<<Seg(<<"l","e","n">>, Star(ClsS)), Seg(<<"(">>, Group(1, Plus(ClsNotParen)))>>, <<")">>)

\* /def\s+(\w+)\((.*?)\):/g
PatDef ==
    Regex(<<Seg(<<"d","e","f">>, Plus(ClsS)), Seg(<<>>, Group(1, Plus(ClsW))),
            Seg(<<"(">>, Group(2, LazyStar(ClsDot)))>>, <<")",":">>)

\* /(.*),\s*(.*)\s*=\s*\[\],\s*\[\]/g
PatDual ==
    Regex(<<Seg(<<>>, Group(1, Star(ClsDot))), Seg(<<",">>, Star(ClsS)),
            Seg(<<>>, Group(2, Star(ClsDot))), Seg(<<>>, Star(ClsS)), Seg(<<"=">>, Star(ClsS)),
            Seg(<<"[","]",",">>, Star(ClsS))>>, <<"[","]">>)

\* /for\s+(\w+)\s+in\s+range\((.*)\):/g
PatFor ==
    Regex(<<Seg(<<"f","o","r">>, Plus(ClsS)), Seg(<<>>, Group(1, Plus(ClsW))), Seg(<<>>, Plus(ClsS)),
            Seg(<<"i","n">>, Plus(ClsS)), Seg(<<"r","a","n","g","e","(">>, Group(2, Star(ClsDot)))>>, <<")",":">>)

\* /(\w+)\.append\((.*?)\)/g
PatAppend ==
    Regex(<<Seg(<<>>, Group(1, Plus(ClsW))), Seg(<<".","a","p","p","e","n","d","(">>, Group(2, LazyStar(ClsDot)))>>, <<")">>)

\* /return\s+np\.array\((.*?)\),?\s*np\.array\((.*?)\)/g
PatReturn ==
    Regex(<<Seg(<<"r","e","t","u","r","n">>, Plus(ClsS)), Seg(<<"n","p",".","a","r","r","a","y","(">>, Group(1, LazyStar(ClsDot))),
            Seg(<<")">>, Opt(",")), Seg(<<>>, Star(ClsS)),
            Seg(<<"n","p",".","a","r","r","a","y","(">>, Group(2, LazyStar(ClsDot)))>>, <<")">>)

(***************************************************************************)
(* The translators of App.jsx.  A translator returns [threw, text]: threw  *)
(* is TRUE when the call raises instead of returning.                      *)
(***************************************************************************)
Returns(text) == [threw |-> FALSE, text |-> text]

Throws == [threw |-> TRUE, text |-> <<>>]

\* "Cerrar bloques abiertos" of App.jsx: code += '\n' + '}'.repeat(open - close)
closeBlocks(code) ==
    LET openBraces  == CountChar(code, "{")
        closeBraces == CountChar(code, "}")
    IN  IF RepeatThrows(openBraces - closeBraces) THEN Throws
        ELSE Returns(code \o <<"\n">> \o Repeat("}", openBraces - closeBraces))

\* code.split('\n').map(line => indent + line).join('\n')
IndentLines(code, indent) ==
    LET lines == Split(code, "\n")
    IN  Join([k \in 1..Len(lines) |-> indent \o lines[k]], <<"\n">>)

\* the callback of translateToGo's function-definition rewrite in App.jsx
goFuncDecl(g) ==
    LET params == Split(g[2], ",")
        typedParams ==
            IF Trim(g[2]) # <<>>
            THEN Join([k \in 1..Len(params) |-> Trim(params[k]) \o <<" ","[","]","f","l","o","a","t","6","4">>], <<","," ">>)
            ELSE <<>>
    IN  <<"f","u","n","c"," ">> \o g[1] \o <<"(">> \o typedParams \o <<")"," ","(","[","]","[","]","f","l","o","a","t",
                                          "6","4",","," ","[","]","f","l","o","a","t","6","4",
                                          ","," ","e","r","r","o","r",")"," ","{">>

\* the header translateToGo puts before rewritten definitions
goPackage(code, context) ==
    LET imports == <<"\"","f","m","t","\"">> \o (IF SetHas(context.imports, "numpy")
                                THEN <<"\n"," "," "," "," "," "," "," "," ","\"","m","a",
                                       "t","h","\"">> ELSE <<>>)
    IN  IF ~Includes(code, <<"p","a","c","k","a","g","e"," ","m","a","i","n">>)
        THEN <<"p","a","c","k","a","g","e"," ","m","a","i","n","\n","\n","i","m","p","o",
               "r","t"," ","(","\n"," "," "," "," "," "," "," "," ">> \o imports \o <<"\n",")","\n","\n">> \o code
        ELSE code

\* "Estructura principal" of translateToGo
goMain(code, context) ==
    IF ~Includes(code, <<"f","u","n","c"," ">>) /\ ~Includes(code, <<"p","a","c","k","a","g","e"," ","m","a","i","n">>)
    THEN <<"p","a","c","k","a","g","e"," ","m","a","i","n","\n","\n","i","m","p","o","r",
           "t"," ","\"","f","m","t","\"","\n","\n","f","u","n","c"," ","m","a","i","n","(",
           ")"," ","{","\n"," "," "," "," ">>
         \o IndentLines(code, <<" "," "," "," "," "," "," "," ">>) \o <<"\n","}">>
    ELSE goPackage(ReplaceFn(PatDef, code, [g \in Captures |-> goFuncDecl(g)]), context)

\* "Cerrar bloques abiertos" of translateToGo, translateToJs and translateToCSharp
closeOpenBlocks(code) ==
    IF Includes(code, <<"{">>) /\ ~EndsWith(Trim(code), <<"}">>) THEN closeBlocks(code)
    ELSE Returns(code)

translateToGo(code, context) ==
    LET s1 == Replace(PatPrint, code, <<"f","m","t",".","P","r","i","n","t","l","n","(","$",
                                        "1",")">>)
        s2 == ReplaceFn(PatInput, s1, [g \in Captures |->
                <<"f","u","n","c","(",")"," ","s","t","r","i","n","g"," ","{","\n"," "," ",
                  " "," ","f","m","t",".","P","r","i","n","t","(">> \o g[1]
                \o <<")","\n"," "," "," "," ","v","a","r"," ","i","n","p","u","t"," ","s",
                     "t","r","i","n","g","\n"," "," "," "," ","f","m","t",".","S","c","a","n",
                     "l","n","(","&","i","n","p","u","t",")","\n"," "," "," "," ","r","e","t",
                     "u","r","n"," ","i","n","p","u","t","\n"," "," ","}","(",")">>])
        s3 == Replace(PatLen, s2, <<"l","e","n","(","$","1",")">>)
        s4 == goMain(s3, context)
        s5 == ReplaceFn(PatDual, s4, [g \in Captures |->
                Trim(g[1]) \o <<" ",":","="," ","m","a","k","e","(","[","]","[","]","f","l",
                                "o","a","t","6","4",","," ","0",")","\n"," "," "," "," "," ",
                                " "," "," "," "," ">>
                \o Trim(g[2]) \o <<" ",":","="," ","m","a","k","e","(","[","]","f","l","o",
                                   "a","t","6","4",","," ","0",")">>])
        s6 == Replace(PatFor, s5, <<"f","o","r"," ","$","1"," ",":","="," ","0",";"," ","$",
                                    "1"," ","<"," ","$","2",";"," ","$","1","+","+"," ","{">>)
        s7 == Replace(PatAppend, s6, <<"$","1"," ","="," ","a","p","p","e","n","d","(","$",
                                       "1",","," ","$","2",")">>)
        s8 == Replace(PatReturn, s7, <<"r","e","t","u","r","n"," ","$","1",","," ","$","2",
                                       ","," ","n","i","l">>)
    IN  closeOpenBlocks(s8)

\* the tags translateToPhp puts around rewritten definitions
phpTags(code) == IF ~Includes(code, <<"<","?","p","h","p">>) THEN <<"<","?","p","h","p","\n","\n">> \o code \o <<"\n","\n","?",">">> ELSE code

\* "Estructura principal" of translateToPhp
phpMain(code) ==
    IF ~Includes(code, <<"f","u","n","c","t","i","o","n"," ">>) /\ ~Includes(code, <<"<","?","p","h","p">>)
    THEN <<"<","?","p","h","p","\n","\n">> \o code \o <<"\n","\n","?",">">>
    ELSE phpTags(Replace(PatDef, code, <<"f","u","n","c","t","i","o","n"," ","$","1","(",
                                         "$","2",")"," ","{">>))

\* "Cerrar bloques abiertos" of translateToPhp
closeOpenBlocksPhp(code) ==
    IF Includes(code, <<"{">>) /\ ~EndsWith(Trim(code), <<"}">>) /\ ~Includes(code, <<"?",">">>)
    THEN closeBlocks(code)
    ELSE Returns(code)

translateToPhp(code, context) ==
    LET s1 == Replace(PatPrint, code, <<"e","c","h","o"," ","$","1",";">>)
        s2 == ReplaceFn(PatInput, s1, [g \in Captures |->
                <<"(","f","u","n","c","t","i","o","n","(",")"," ","u","s","e"," ","(","$",
                  "p","r","o","m","p","t",")"," ","{","\n"," "," "," "," ","e","c","h","o",
                  " ">> \o g[1]
                \o <<";","\n"," "," "," "," ","r","e","t","u","r","n"," ","t","r","i","m",
                     "(","f","g","e","t","s","(","S","T","D","I","N",")",")",";","\n"," "," ",
                     "}",")","(",")">>])
        s3 == Replace(PatLen, s2, <<"c","o","u","n","t","(","$","1",")">>)
        s4 == phpMain(s3)
        s5 == Replace(PatDual, s4, <<"$","$","$","1"," ","="," ","[","]",";","\n"," "," ",
                                     " "," "," "," "," "," "," "," ","$","$","$","2"," ","=",
                                     " ","[","]",";">>)
        s6 == Replace(PatFor, s5, <<"f","o","r"," ","(","$","$","1"," ","="," ","0",";"," ",
                                    "$","$","1"," ","<"," ","$","2",";"," ","$","$","1","+",
                                    "+",")"," ","{">>)
        s7 == Replace(PatAppend, s6, <<"a","r","r","a","y","_","p","u","s","h","(","$","$",
                                       "$","1",","," ","$","2",")",";">>)
        s8 == Replace(PatReturn, s7, <<"r","e","t","u","r","n"," ","a","r","r","a","y","(",
                                       "$","$","$","1",","," ","$","$","$","2",")",";">>)
    IN  closeOpenBlocksPhp(s8)

translateToJs(code, context) ==
    LET s1 == Replace(PatPrint, code, <<"c","o","n","s","o","l","e",".","l","o","g","(","$",
                                        "1",")">>)
        s2 == ReplaceFn(PatInput, s1, [g \in Captures |->
                <<"(","(",")"," ","=",">"," ","{","\n"," "," "," "," ","c","o","n","s","t",
                  " ","r","e","a","d","l","i","n","e"," ","="," ","r","e","q","u","i","r","e",
                  "(","'","r","e","a","d","l","i","n","e","'",")",";","\n">>
                \o <<" "," "," "," ","c","o","n","s","t"," ","r","l"," ","="," ","r","e",
                     "a","d","l","i","n","e",".","c","r","e","a","t","e","I","n","t","e","r",
                     "f","a","c","e","(","{","\n">>
                \o <<" "," "," "," "," "," ","i","n","p","u","t",":"," ","p","r","o","c",
                     "e","s","s",".","s","t","d","i","n",",","\n"," "," "," "," "," "," ","o",
                     "u","t","p","u","t",":"," ","p","r","o","c","e","s","s",".","s","t","d",
                     "o","u","t","\n"," "," "," "," ","}",")",";","\n">>
                \o <<" "," "," "," ","r","e","t","u","r","n"," ","n","e","w"," ","P","r",
                     "o","m","i","s","e","(","(","r","e","s","o","l","v","e",")"," ","=",">",
                     " ","{","\n"," "," "," "," "," "," ","r","l",".","q","u","e","s","t","i",
                     "o","n","(">> \o g[1]
                \o <<","," ","(","a","n","s","w","e","r",")"," ","=",">"," ","{","\n"," ",
                     " "," "," "," "," "," "," ","r","l",".","c","l","o","s","e","(",")",";",
                     "\n"," "," "," "," "," "," "," "," ","r","e","s","o","l","v","e","(","a",
                     "n","s","w","e","r",")",";","\n">>
                \o <<" "," "," "," "," "," ","}",")",";","\n"," "," "," "," ","}",")",";",
                     "\n"," "," ","}",")","(",")">>])
        s3 == Replace(PatLen, s2, <<"$","1",".","l","e","n","g","t","h">>)
        s4 == Replace(PatDef, s3, <<"f","u","n","c","t","i","o","n"," ","$","1","(","$","2",
                                    ")"," ","{">>)
        s5 == Replace(PatDual, s4, <<"l","e","t"," ","$","1"," ","="," ","[","]",";","\n",
                                     " "," "," "," "," "," "," "," "," "," ","l","e","t"," ",
                                     "$","2"," ","="," ","[","]",";">>)
        s6 == Replace(PatFor, s5, <<"f","o","r"," ","(","l","e","t"," ","$","1"," ","="," ",
                                    "0",";"," ","$","1"," ","<"," ","$","2",";"," ","$","1",
                                    "+","+",")"," ","{">>)
        s7 == Replace(PatAppend, s6, <<"$","1",".","p","u","s","h","(","$","2",")",";">>)
        s8 == Replace(PatReturn, s7, <<"r","e","t","u","r","n"," ","[","$","1",","," ","$",
                                       "2","]",";">>)
    IN  closeOpenBlocks(s8)

\* the using directives of translateToCSharp
csUsings == <<"u","s","i","n","g"," ","S","y","s","t","e","m",";","\n","u","s","i","n","g",
              " ","S","y","s","t","e","m",".","C","o","l","l","e","c","t","i","o","n","s",".",
              "G","e","n","e","r","i","c",";","\n","u","s","i","n","g"," ","S","y","s","t",
              "e","m",".","L","i","n","q",";","\n","\n">>

\* the class translateToCSharp puts around rewritten definitions
csClass(code) ==
    IF ~Includes(code, <<"u","s","i","n","g"," ","S","y","s","t","e","m">>)
    THEN csUsings \o <<"p","u","b","l","i","c"," ","c","l","a","s","s"," ","M","L","T","r",
                       "a","n","s","l","a","t","o","r","\n","{","\n"," "," "," "," "," "," ">> \o code \o <<"\n","}">>
    ELSE code

\* "Estructura principal" of translateToCSharp
csMain(code) ==
    IF ~Includes(code, <<"p","u","b","l","i","c"," ","s","t","a","t","i","c">>) /\ ~Includes(code, <<"c","l","a","s","s">>)
    THEN csUsings \o <<"p","u","b","l","i","c"," ","c","l","a","s","s"," ","P","r","o","g",
                       "r","a","m","\n","{","\n">>
         \o <<" "," "," "," ","p","u","b","l","i","c"," ","s","t","a","t","i","c"," ","v",
              "o","i","d"," ","M","a","i","n","(","s","t","r","i","n","g","[","]"," ","a","r",
              "g","s",")","\n"," "," "," "," ","{","\n"," "," "," "," "," "," "," "," ">>
         \o IndentLines(code, <<" "," "," "," "," "," "," "," "," "," "," "," ">>) \o <<"\n"," "," "," "," ","}","\n","}">>
    ELSE csClass(Replace(PatDef, code, <<"p","u","b","l","i","c"," ","s","t","a","t","i",
                                         "c"," ","(","d","o","u","b","l","e","[","]","[","]",
                                         " ","x",","," ","d","o","u","b","l","e","[","]"," ",
                                         "y",")"," ","$","1","(","$","2",")"," ","{">>))

translateToCSharp(code, context) ==
    LET s1 == Replace(PatPrint, code, <<"C","o","n","s","o","l","e",".","W","r","i","t","e",
                                        "L","i","n","e","(","$","1",")",";">>)
        s2 == ReplaceFn(PatInput, s1, [g \in Captures |->
                <<"(","(",")"," ","=",">"," ","{","\n"," "," "," "," ","C","o","n","s","o",
                  "l","e",".","W","r","i","t","e","(">> \o g[1]
                \o <<")",";","\n"," "," "," "," ","r","e","t","u","r","n"," ","C","o","n",
                     "s","o","l","e",".","R","e","a","d","L","i","n","e","(",")",";","\n"," ",
                     " ","}",")","(",")">>])
        s3 == Replace(PatLen, s2, <<"$","1",".","L","e","n","g","t","h">>)
        s4 == csMain(s3)
        s5 == Replace(PatDual, s4,
                      <<"v","a","r"," ","$","1"," ","="," ","n","e","w"," ","L","i","s","t",
                        "<","d","o","u","b","l","e","[","]",">","(",")",";","\n"," "," "," ",
                        " "," "," "," "," "," "," ","v","a","r"," ","$","2"," ","="," ","n",
                        "e","w"," ","L","i","s","t","<","d","o","u","b","l","e",">","(",")",
                        ";">>)
        s6 == Replace(PatFor, s5, <<"f","o","r"," ","(","v","a","r"," ","$","1"," ","="," ",
                                    "0",";"," ","$","1"," ","<"," ","$","2",";"," ","$","1",
                                    "+","+",")"," ","{">>)
        s7 == Replace(PatAppend, s6, <<"$","1",".","A","d","d","(","$","2",")",";">>)
        s8 == Replace(PatReturn, s7, <<"r","e","t","u","r","n"," ","(","$","1",".","T","o",
                                       "A","r","r","a","y","(",")",","," ","$","2",".","T",
                                       "o","A","r","r","a","y","(",")",")",";">>)
    IN  closeOpenBlocks(s8)

(***************************************************************************)
(* The translators of part_000 (the revision with library integration).    *)
(* None of them has a statement that can raise.  Accented letters of the   *)
(* emitted comments are written without their accents.                     *)
(***************************************************************************)
\* /print\((.*)\)/g
PatPrintLib == Regex(<<Seg(<<"p","r","i","n","t","(">>, Group(1, Star(ClsDot)))>>, <<")">>)

\* /(\w+)\[(.*?):(.*?)\s*\]/g
PatSlice ==
    Regex(<<Seg(<<>>, Group(1, Plus(ClsW))), Seg(<<"[">>, Group(2, LazyStar(ClsDot))),
            Seg(<<":">>, Group(3, LazyStar(ClsDot))), Seg(<<>>, Star(ClsS))>>, <<"]">>)

\* /np\.array\((.*?)\)\.reshape\((.*?)\)/g
PatReshape ==
    Regex(<<Seg(<<"n","p",".","a","r","r","a","y","(">>, Group(1, LazyStar(ClsDot))),
            Seg(<<")",".","r","e","s","h","a","p","e","(">>, Group(2, LazyStar(ClsDot)))>>, <<")">>)

\* /(scaled)\s*=\s*scaler\.fit_transform\((.*?)\)/g
PatScaled ==
    Regex(<<GroupSeg(1, <<"s","c","a","l","e","d">>, Star(ClsS)), Seg(<<"=">>, Star(ClsS)),
            Seg(<<"s","c","a","l","e","r",".","f","i","t","_","t","r","a","n","s","f","o",
                  "r","m","(">>, Group(2, LazyStar(ClsDot)))>>, <<")">>)

\* /range\(len\((.*?)\)\s*-\s*LOOKBACK\)/g
PatLookback ==
    Regex(<<Seg(<<"r","a","n","g","e","(","l","e","n","(">>, Group(1, LazyStar(ClsDot))), Seg(<<")">>, Star(ClsS)),
            Seg(<<"-">>, Star(ClsS))>>, <<"L","O","O","K","B","A","C","K",")">>)

\* /len\((\w+)\)/g
PatLenWord == Regex(<<Seg(<<"l","e","n","(">>, Group(1, Plus(ClsW)))>>, <<")">>)

\* parts[i] interpolated into a template literal: a missing element reads "undefined"
PartOr(parts, i) == IF i <= Len(parts) THEN parts[i] ELSE <<"u","n","d","e","f","i","n","e","d">>

\* inferGoType: the parameter-name hints, then the analyzer's kind through
\* typeMapping, then the default
inferGoType(paramName, context) ==
    IF Includes(paramName, <<"p","r","i","c","e">>) \/ Includes(paramName, <<"d","a","t","a">>) THEN <<"[","]","f","l","o","a","t","6","4">>
    ELSE IF Includes(paramName, <<"i","n","d","e","x">>) \/ Includes(paramName, <<"s","i","z","e">>) THEN <<"i","n","t">>
    ELSE LET contextType == getVariableType(context, paramName)
         IN  IF contextType \in DOMAIN typeMappingLib
             THEN typeMappingLib[contextType].go
             ELSE <<"[","]","f","l","o","a","t","6","4">>

\* the callback of translateToGo's function-definition rewrite in part_000
goFuncDeclLib(g, context) ==
    LET params == Split(g[2], ",")
        typedParams ==
            IF Trim(g[2]) # <<>>
            THEN Join([k \in 1..Len(params) |->
                         Trim(params[k]) \o <<" ">> \o inferGoType(Trim(params[k]), context)],
                      <<","," ">>)
            ELSE <<>>
    IN  <<"f","u","n","c"," ">> \o g[1] \o <<"(">> \o typedParams \o <<")"," ","(","x",","," ","y"," ","[","]","[","]",
                                          "f","l","o","a","t","6","4",","," ","e","r","r"," ",
                                          "e","r","r","o","r",")"," ","{">>

\* the import block of translateToGo in part_000
goImportBlock(imports) ==
    IF Len(imports) > 1
    THEN <<"i","m","p","o","r","t"," ","(","\n"," "," "," "," ">>
         \o Join([k \in 1..Len(imports) |->
                    IF Includes(imports[k], <<"/">>) THEN imports[k]
                    ELSE <<"\"">> \o imports[k] \o <<"\"">>],
                 <<"\n"," "," "," "," ">>)
         \o <<"\n",")">>
    ELSE <<"i","m","p","o","r","t"," ","\"">> \o imports[1] \o <<"\"">>

\* "Integracion de Libreria (NumPy)" of translateToGo: the text and needsGonumMat
goNumpy(code, context) ==
    LET needsGonumMat == SetHas(context.imports, "numpy") /\ Includes(code, <<"n","p",".","a","r","r","a","y">>)
    IN  [needsGonumMat |-> needsGonumMat,
         code |-> IF needsGonumMat
                  THEN ReplaceFn(PatReshape, code, [g \in Captures |->
                         LET shapeParts == MapTrim(Split(g[2], ","))
                             rows == IF shapeParts[1] = <<"-","1">> THEN <<"l","e","n","(">> \o g[1] \o <<")">>
                                     ELSE shapeParts[1]
                             cols == PartOr(shapeParts, 2)
                         IN  <<"m","a","t",".","N","e","w","D","e","n","s","e","(">> \o rows \o <<","," ">> \o cols \o <<","," ">> \o g[1] \o <<")">>])
                  ELSE code]

\* "Integracion de Libreria (Sklearn)" of translateToGo: the text and both flags
goSklearn(st, context) ==
    LET needsGonumStat == SetHas(context.imports, "sklearn") /\ Includes(st.code, <<"M","i","n","M","a","x","S","c","a","l","e","r">>)
    IN  [needsGonumMat |-> st.needsGonumMat,
         needsGonumStat |-> needsGonumStat,
         code |-> IF needsGonumStat
                  THEN ReplaceFn(PatScaled, st.code, [g \in Captures |->
                         <<"v","a","r"," ">> \o g[1] \o <<" ","m","a","t",".","D","e","n","s","e","\n">>
                         \o <<" "," "," "," ","/","/"," ","T","O","D","O",":"," ","I","m",
                              "p","l","e","m","e","n","t","a","r"," ","l","a"," ","l","o","g",
                              "i","c","a"," ","d","e"," ","s","c","a","l","i","n","g"," ","c",
                              "o","n"," ","g","o","n","u","m","/","s","t","a","t","\n">>
                         \o <<" "," "," "," ","/","/"," ","s","t","a","t",".","U","n","i",
                              "t","N","o","r","m","(","s","c","a","l","e","d","V","a","r",",",
                              " ">> \o g[2] \o <<","," ","0",","," ","f","a","l","s","e",")","\n">>
                         \o <<" "," "," "," ","r","e","t","u","r","n","\n"," "," "," "," ",
                              "/","/"," ","s","c","a","l","e","d"," ","="," ","s","c","a","l",
                              "e","d","D","a","t","a">>])
                  ELSE st.code]

\* the LOOKBACK constant of translateToGo
goLookback(code, context) ==
    IF Includes(code, <<"L","O","O","K","B","A","C","K">>) /\ ~MapHas(context.variables, <<"L","O","O","K","B","A","C","K">>)
    THEN <<"c","o","n","s","t"," ","L","O","O","K","B","A","C","K"," ","="," ","1","0"," ",
           "/","/"," ","S","e","q","u","e","n","c","e"," ","l","e","n","g","t","h"," ","f",
           "o","r"," ","t","i","m","e"," ","s","e","r","i","e","s","\n","\n">> \o code
    ELSE code

\* "Cierre de funcion" of translateToGo
goCloseFunc(code) ==
    IF Includes(code, <<"f","u","n","c">>) /\ ~Includes(code, <<"r","e","t","u","r","n">>)
    THEN code \o <<"\n"," "," "," "," ","r","e","t","u","r","n"," ","n","i","l",","," ","n",
                   "i","l",","," ","f","m","t",".","E","r","r","o","r","f","(","\"","f","u",
                   "n","c","t","i","o","n"," ","n","o","t"," ","i","m","p","l","e","m","e",
                   "n","t","e","d","\"",")","\n","}">>
    ELSE IF Includes(code, <<"f","u","n","c">>) /\ ~EndsWith(code, <<"}">>) THEN code \o <<"\n","}">>
    ELSE code

\* "Estructura principal y Manejo de Imports" of translateToGo
goProgram(code, st) ==
    LET imports == <<<<"f","m","t">>>>
                   \o (IF Includes(code, <<"m","a","t","h",".">>) THEN <<<<"m","a","t","h">>>> ELSE <<>>)
                   \o (IF st.needsGonumMat THEN <<<<"\"","g","o","n","u","m",".","o","r","g","/","v",
                                          "1","/","g","o","n","u","m","/","m","a","t","\"">>>> ELSE <<>>)
                   \o (IF st.needsGonumStat THEN <<<<"\"","g","o","n","u","m",".","o","r","g","/","v",
                                          "1","/","g","o","n","u","m","/","s","t","a","t",
                                          "\"">>>> ELSE <<>>)
    IN  Returns(<<"p","a","c","k","a","g","e"," ","m","a","i","n","\n","\n">> \o goImportBlock(imports) \o <<"\n","\n">> \o code)

\* translateToGo of part_000 from the return rewrite on
goFinish(st, context) ==
    goProgram(
        goCloseFunc(
            ReplaceFn(PatLookback,
                      goLookback(ReplaceFn(PatReturn, st.code, [g \in Captures |->
                                   <<"r","e","t","u","r","n"," ">> \o g[1] \o <<","," ">> \o g[2] \o <<","," ","n","i","l"," ","/","/"," ","S","u","c",
                                          "c","e","s","s">>]),
                                 context),
                      [g \in Captures |->
                         <<"i","n","t","(","m","a","t","h",".","M","a","x","(","0",","," ",
                           "f","l","o","a","t","6","4","(","l","e","n","(">> \o g[1] \o <<")"," ","-"," ","L","O","O","K","B","A","C","K",
                                          ")",")",")">>])),
        st)

translateToGoLib(code, context) ==
    LET s1 == ReplaceFn(PatDef, code, [g \in Captures |-> goFuncDeclLib(g, context)])
        s2 == ReplaceFn(PatDual, s1, [g \in Captures |->
                Trim(g[1]) \o <<" ",":","="," ","m","a","k","e","(","[","]","[","]","f","l",
                                "o","a","t","6","4",","," ","0",")","\n"," "," "," "," ">>
                \o Trim(g[2]) \o <<" ",":","="," ","m","a","k","e","(","[","]","f","l","o",
                                   "a","t","6","4",","," ","0",")">>])
        s3 == ReplaceFn(PatFor, s2, [g \in Captures |->
                <<"f","o","r"," ">> \o g[1] \o <<" ",":","="," ","0",";"," ">> \o g[1] \o <<" ","<"," ">>
                \o Replace(PatLenWord, g[2], <<"l","e","n","(","$","1",")">>) \o <<";"," ">> \o g[1] \o <<"+","+"," ","{">>])
        s4 == ReplaceFn(PatPrintLib, s3, [g \in Captures |->
                <<"f","m","t",".","P","r","i","n","t","f","(","\"","V","a","l","u","e",":",
                  " ","%","v","\\","n","\"",","," ">> \o g[1] \o <<")">>])
        s5 == ReplaceFn(PatAppend, s4, [g \in Captures |->
                g[1] \o <<" ","="," ","a","p","p","e","n","d","(">> \o g[1] \o <<","," ">> \o g[2] \o <<")">>])
        s6 == ReplaceFn(PatSlice, s5, [g \in Captures |->
                g[1] \o <<"[">> \o g[2] \o <<":">> \o g[3] \o <<"]">>])
    IN  goFinish(goSklearn(goNumpy(s6, context), context), context)

\* the LOOKBACK constant of the other translators
declareLookback(code, context, decl) ==
    IF Includes(code, <<"L","O","O","K","B","A","C","K">>) /\ ~MapHas(context.variables, <<"L","O","O","K","B","A","C","K">>)
    THEN decl \o code
    ELSE code

\* "Cierre de funcion" of the other translators
closeFunc(code, keyword) ==
    IF Includes(code, keyword) /\ ~EndsWith(code, <<"}">>) THEN code \o <<"\n","}">> ELSE code

\* the guards of the library rewrites of the other translators
usesNumpy(code, context) == SetHas(context.imports, "numpy") /\ Includes(code, <<"n","p",".","a","r","r","a","y">>)

usesSklearn(code, context) == SetHas(context.imports, "sklearn") /\ Includes(code, <<"M","i","n","M","a","x","S","c","a","l","e","r">>)

\* the NumPy rewrite of translateToPhp
phpNumpy(code, context) ==
    IF usesNumpy(code, context)
    THEN ReplaceFn(PatReshape, code, [g \in Captures |->
           <<"(","n","e","w"," ","\\","M","a","t","h","P","H","P","\\","L","i","n","e","a",
             "r","A","l","g","e","b","r","a","\\","M","a","t","r","i","x","(","$","$">> \o g[1] \o <<")",")","-",">","r","e","s","h","a","p","e","(">>
           \o Split(g[2], ",")[1] \o <<","," ">> \o PartOr(Split(g[2], ","), 2) \o <<")">>])
    ELSE code

\* the Sklearn rewrite of translateToPhp
phpSklearn(code, context) ==
    IF usesSklearn(code, context)
    THEN ReplaceFn(PatScaled, code, [g \in Captures |->
           <<"$">> \o g[1] \o <<" ","="," ","(","n","e","w"," ","\\","P","h","p","m","l",
                                "\\","P","r","e","p","r","o","c","e","s","s","i","n","g","\\",
                                "N","o","r","m","a","l","i","z","e","r","(",")",")","\n">>
           \o <<" "," "," "," "," "," "," "," ","-",">","f","i","t","(","$">> \o g[2] \o <<")","\n"," "," "," "," "," "," "," "," ","-",">",
                                          "t","r","a","n","s","f","o","r","m","(","$">> \o g[2] \o <<")",";">>])
    ELSE code

translateToPhpLib(code, context) ==
    LET s1 == Replace(PatDef, code, <<"f","u","n","c","t","i","o","n"," ","$","1","(","$",
                                      "2",")"," ","{">>)
        s2 == ReplaceFn(PatDual, s1, [g \in Captures |->
                <<"$">> \o Trim(g[1]) \o <<" ","="," ","[","]",";","\n"," "," "," "," ","$">> \o Trim(g[2]) \o <<" ","="," ","[","]",";">>])
        s3 == Replace(PatFor, s2, <<"f","o","r"," ","(","$","1"," ","="," ","0",";"," ","$",
                                    "1"," ","<"," ","$","2",";"," ","$","1","+","+",")"," ",
                                    "{">>)
        s4 == Replace(PatPrintLib, s3, <<"e","c","h","o"," ","$","1",";">>)
        s5 == Replace(PatAppend, s4, <<"a","r","r","a","y","_","p","u","s","h","(","$","$",
                                       "1",","," ","$","2",")",";">>)
        s6 == Replace(PatSlice, s5, <<"a","r","r","a","y","_","s","l","i","c","e","(","$",
                                      "$","1",","," ","$","2",","," ","(","$","3"," ","-"," ",
                                      "$","2",")",")">>)
        s7 == phpNumpy(s6, context)
        s8 == phpSklearn(s7, context)
        s9 == Replace(PatReturn, s8, <<"r","e","t","u","r","n"," ","a","r","r","a","y","(",
                                       "$","$","1",","," ","$","$","2",")",";">>)
        s10 == declareLookback(s9, context, <<"$","L","O","O","K","B","A","C","K"," ","="," ",
                                          "1","0",";","\n","\n">>)
        s11 == closeFunc(s10, <<"f","u","n","c","t","i","o","n">>)
    IN  Returns(<<"<","?","p","h","p","\n","\n">> \o s11 \o <<"\n","\n","?",">">>)

\* the NumPy rewrite of translateToJs
jsNumpy(code, context) ==
    IF usesNumpy(code, context)
    THEN ReplaceFn(PatReshape, code, [g \in Captures |->
           LET shapeParts == MapTrim(Split(g[2], ","))
               rows == IF shapeParts[1] = <<"-","1">> THEN <<"a","r","r","a","y","N","a","m","e",".","l","e",
                                          "n","g","t","h">> ELSE shapeParts[1]
               cols == PartOr(shapeParts, 2)
           IN  <<"m","a","t","r","i","x",".","M","a","t","r","i","x",".","f","r","o","m",
                 "1","D","A","r","r","a","y","(">> \o rows \o <<","," ">> \o cols \o <<","," ">> \o g[1] \o <<")">>])
    ELSE code

\* the Sklearn rewrite of translateToJs
jsSklearn(code, context) ==
    IF usesSklearn(code, context)
    THEN ReplaceFn(PatScaled, code, [g \in Captures |->
           <<"c","o","n","s","t"," ","s","c","a","l","e","r"," ","="," ","n","e","w"," ",
             "M","i","n","M","a","x","S","c","a","l","e","r","(","{"," ","f","e","a","t","u",
             "r","e","R","a","n","g","e",":"," ","[","0",","," ","1","]"," ","}",")",";",
             "\n">>
           \o <<" "," "," "," ","c","o","n","s","t"," ">> \o g[1] \o <<" ","="," ","s","c","a","l","e","r",".","f","i",
                                          "t","(">> \o g[2] \o <<")",".","t","r","a","n","s","f","o","r","m","(">> \o g[2] \o <<")",";">>])
    ELSE code

translateToJsLib(code, context) ==
    LET s1 == Replace(PatDef, code, <<"f","u","n","c","t","i","o","n"," ","$","1","(","$",
                                      "2",")"," ","{">>)
        s2 == Replace(PatDual, s1, <<"l","e","t"," ","$","1"," ","="," ","[","]",";","\n",
                                     " "," "," "," ","l","e","t"," ","$","2"," ","="," ","[",
                                     "]",";">>)
        s3 == Replace(PatFor, s2, <<"f","o","r"," ","(","l","e","t"," ","$","1"," ","="," ",
                                    "0",";"," ","$","1"," ","<"," ","$","2",";"," ","$","1",
                                    "+","+",")"," ","{">>)
        s4 == Replace(PatPrintLib, s3, <<"c","o","n","s","o","l","e",".","l","o","g","(",
                                         "$","1",")",";">>)
        s5 == Replace(PatAppend, s4, <<"$","1",".","p","u","s","h","(","$","2",")",";">>)
        s6 == Replace(PatSlice, s5, <<"$","1",".","s","l","i","c","e","(","$","2",","," ",
                                      "$","3",")">>)
        s7 == jsNumpy(s6, context)
        s8 == jsSklearn(s7, context)
        s9 == Replace(PatReturn, s8, <<"r","e","t","u","r","n"," ","[","$","1",","," ","$",
                                       "2","]",";">>)
        s10 == declareLookback(s9, context, <<"c","o","n","s","t"," ","L","O","O","K","B","A",
                                          "C","K"," ","="," ","1","0",";","\n","\n">>)
    IN  Returns(closeFunc(s10, <<"f","u","n","c","t","i","o","n">>))

\* the NumPy rewrite of translateToCSharp
csNumpy(code, context) ==
    IF usesNumpy(code, context)
    THEN ReplaceFn(PatReshape, code, [g \in Captures |->
           LET shapeParts == MapTrim(Split(g[2], ","))
               rows == IF shapeParts[1] = <<"-","1">> THEN g[1] \o <<".","C","o","u","n","t">> ELSE shapeParts[1]
               cols == PartOr(shapeParts, 2)
           IN  <<"/","/"," ","M","a","t","h","N","e","t",".","N","u","m","e","r","i","c",
                 "s",".","L","i","n","e","a","r","A","l","g","e","b","r","a",".","M","a","t",
                 "r","i","x","<","d","o","u","b","l","e",">",".","B","u","i","l","d",".">>
               \o <<"D","e","n","s","e","O","f","C","o","l","u","m","n","A","r","r","a","y",
                    "s","(">> \o g[1] \o <<")","\n"," "," "," "," ","/","/"," ","R","e","s",
                                          "h","a","p","e","(">> \o rows
               \o <<","," ">> \o cols \o <<")","\n"," "," "," "," ","v","a","r"," ","r","e",
                                          "s","h","a","p","e","d","A","r","r","a","y"," ","=",
                                          " ","n","e","w"," ","d","o","u","b","l","e","[">> \o rows
               \o <<","," ">> \o cols \o <<"]",";">>])
    ELSE code

\* the Sklearn rewrite of translateToCSharp
csSklearn(code, context) ==
    IF usesSklearn(code, context)
    THEN ReplaceFn(PatScaled, code, [g \in Captures |->
           <<"v","a","r"," ","m","l","C","o","n","t","e","x","t"," ","="," ","n","e","w",
             " ","M","L","C","o","n","t","e","x","t","(",")",";","\n">>
           \o <<" "," "," "," ","/","/"," ","I","m","p","l","e","m","e","n","t","a","r"," ",
                "l","o","g","i","c","a"," ","d","e"," ","M","L",".","N","E","T"," ","p","a",
                "r","a"," ","s","c","a","l","i","n","g","\n"," "," "," "," ","v","a","r"," ">> \o g[1]
           \o <<" ","="," ","n","e","w"," ","L","i","s","t","<","d","o","u","b","l","e","[",
                "]",">","(",")",";"," ","/","/"," ","P","l","a","c","e","h","o","l","d","e",
                "r">>])
    ELSE code

translateToCSharpLib(code, context) ==
    LET s1 == Replace(PatDef, code, <<"p","u","b","l","i","c"," ","s","t","a","t","i","c",
                                      " ","(","d","o","u","b","l","e","[","]","[","]"," ","x",
                                      ","," ","d","o","u","b","l","e","[","]"," ","y",")"," ",
                                      "$","1","(","$","2",")"," ","{">>)
        s2 == Replace(PatDual, s1,
                      <<"v","a","r"," ","$","1"," ","="," ","n","e","w"," ","L","i","s","t",
                        "<","d","o","u","b","l","e","[","]",">","(",")",";","\n"," "," "," ",
                        " ","v","a","r"," ","$","2"," ","="," ","n","e","w"," ","L","i","s",
                        "t","<","d","o","u","b","l","e",">","(",")",";">>)
        s3 == Replace(PatFor, s2, <<"f","o","r"," ","(","v","a","r"," ","$","1"," ","="," ",
                                    "0",";"," ","$","1"," ","<"," ","$","2",";"," ","$","1",
                                    "+","+",")"," ","{">>)
        s4 == Replace(PatPrintLib, s3, <<"C","o","n","s","o","l","e",".","W","r","i","t",
                                         "e","L","i","n","e","(","$","1",")",";">>)
        s5 == Replace(PatAppend, s4, <<"$","1",".","A","d","d","(","$","2",")",";">>)
        s6 == Replace(PatSlice, s5, <<"$","1",".","S","k","i","p","(","$","2",")",".","T",
                                      "a","k","e","(","$","3"," ","-"," ","$","2",")",".","T",
                                      "o","A","r","r","a","y","(",")">>)
        s7 == csNumpy(s6, context)
        s8 == csSklearn(s7, context)
        s9 == Replace(PatReturn, s8, <<"r","e","t","u","r","n"," ","(","$","1",".","T","o",
                                       "A","r","r","a","y","(",")",","," ","$","2",".","T",
                                       "o","A","r","r","a","y","(",")",")",";">>)
        s10 == declareLookback(s9, context, <<"c","o","n","s","t"," ","i","n","t"," ","L","O",
                                          "O","K","B","A","C","K"," ","="," ","1","0",";",
                                          "\n","\n"," "," "," "," ">>)
        s11 == closeFunc(s10, <<"p","u","b","l","i","c"," ","s","t","a","t","i","c">>)
    IN  Returns(<<"u","s","i","n","g"," ","S","y","s","t","e","m",";","\n","u","s","i","n",
                  "g"," ","S","y","s","t","e","m",".","C","o","l","l","e","c","t","i","o","n",
                  "s",".","G","e","n","e","r","i","c",";","\n","u","s","i","n","g"," ","S",
                  "y","s","t","e","m",".","L","i","n","q",";","\n">>
                \o <<"u","s","i","n","g"," ","M","i","c","r","o","s","o","f","t",".","M",
                     "L",";"," ","/","/"," ","S","u","g","e","r","e","n","c","i","a"," ","d",
                     "e"," ","l","i","b","r","e","r","i","a","\n","\n">>
                \o <<"p","u","b","l","i","c"," ","c","l","a","s","s"," ","M","L","T","r",
                     "a","n","s","l","a","t","o","r","\n","{","\n"," "," "," "," ">> \o s11 \o <<"\n","}">>)

(***************************************************************************)
(* validateSyntax and getConfidenceScore.  A warning is kept as one        *)
(* string (written without accents); its text is never inspected.          *)
(***************************************************************************)
\* a faulty push: the tests are chained with else, so that only the first
\* warning is kept
PushIfNone(issues, cond, w) == IF cond /\ issues = <<>> THEN Append(issues, w) ELSE issues

\* issues.push(w) when cond holds
PushIf(issues, cond, w) == IF cond THEN Append(issues, w) ELSE issues

\* /func\s+\w+\([^)]*\w*\s*\w*[^)]*\)\s*(\([^)]+\))?\s*{/ : the two patterns are the
\* regular expression with and without its optional group
PatGoFuncHead ==
    <<Seg(<<"f","u","n","c">>, Plus(ClsS)), Seg(<<>>, Plus(ClsW)), Seg(<<"(">>, Star(ClsNotParen)),
      Seg(<<>>, Star(ClsW)), Seg(<<>>, Star(ClsS)), Seg(<<>>, Star(ClsW)),
      Seg(<<>>, Star(ClsNotParen)), Seg(<<")">>, Star(ClsS))>>

PatGoFunc == Regex(PatGoFuncHead \o <<Seg(<<>>, Star(ClsS))>>, <<"{">>)

PatGoFuncResults ==
    Regex(PatGoFuncHead \o <<Seg(<<"(">>, Plus(ClsNotParen)), Seg(<<")">>, Star(ClsS))>>, <<"{">>)

\* validateSyntax.go of App.jsx
validateGo(code) ==
    LET i1 == PushIf(<<>>,
                     /\ Includes(code, <<"f","u","n","c">>)
                     /\ ~(Test(PatGoFuncResults, code) \/ Test(PatGoFunc, code))
                     /\ ~Includes(code, <<"f","u","n","c"," ","m","a","i","n","(",")">>),
                     "Funcion GO necesita tipos en parametros")
    IN  PushIf(i1,
               /\ Includes(code, <<"f","m","t",".","P","r","i","n","t">>) \/ Includes(code, <<"f","m","t",".","S","c","a","n">>)
               /\ ~Includes(code, <<"\"","f","m","t","\"">>),
               "Falta import \"fmt\"")

\* validateSyntax.php of App.jsx
validatePhp(code) ==
    PushIf(<<>>,
           /\ Includes(code, <<"e","c","h","o">>) \/ Includes(code, <<"p","r","i","n","t">>)
           /\ ~Includes(code, <<"<","?","p","h","p">>),
           "Falta etiqueta de apertura PHP")

\* validateSyntax.javascript of App.jsx: its only test guards an empty block
validateJavascript(code) == <<>>

\* validateSyntax.csharp of App.jsx
validateCSharp(code) ==
    LET i1 == PushIf(<<>>,
                     Includes(code, <<"C","o","n","s","o","l","e",".","W","r","i","t","e">>) /\ ~Includes(code, <<"u","s","i","n","g"," ","S","y","s","t","e","m">>),
                     "Falta using System;")
    IN  PushIf(i1,
               Includes(code, <<"p","u","b","l","i","c"," ","s","t","a","t","i","c">>) /\ ~Includes(code, <<"c","l","a","s","s">>),
               "Necesita estar dentro de una clase")

\* /func\s+\w+\([^)]*\w+\s+\w+[^)]*\)/
PatGoTypedParams ==
    Regex(<<Seg(<<"f","u","n","c">>, Plus(ClsS)), Seg(<<>>, Plus(ClsW)), Seg(<<"(">>, Star(ClsNotParen)),
            Seg(<<>>, Plus(ClsW)), Seg(<<>>, Plus(ClsS)), Seg(<<>>, Plus(ClsW)),
            Seg(<<>>, Star(ClsNotParen))>>, <<")">>)

\* /func\s+\w+\([^)]*\)\s*\([^)]*\)/
PatGoReturnType ==
    Regex(<<Seg(<<"f","u","n","c">>, Plus(ClsS)), Seg(<<>>, Plus(ClsW)), Seg(<<"(">>, Star(ClsNotParen)),
            Seg(<<")">>, Star(ClsS)), Seg(<<"(">>, Star(ClsNotParen))>>, <<")">>)

\* validateSyntax.go of part_000
validateGoLib(code) ==
    LET i1 == PushIf(<<>>,
                     Includes(code, <<"f","u","n","c">>) /\ ~Test(PatGoTypedParams, code),
                     "Funcion GO necesita tipos en parametros")
        i2 == PushIf(i1,
                     Includes(code, <<"f","u","n","c">>) /\ ~Test(PatGoReturnType, code),
                     "Funcion GO necesita especificar tipo de retorno")
        i3 == PushIf(i2,
                     /\ Includes(code, <<"f","m","t",".">>)
                     /\ ~Includes(code, <<"i","m","p","o","r","t">>)
                     /\ ~Includes(code, <<"\"","f","m","t","\"">>),
                     "Falta import \"fmt\"")
        i4 == PushIf(i3,
                     Includes(code, <<"m","a","t","h",".">>) /\ ~Includes(code, <<"\"","m","a","t","h","\"">>),
                     "Falta import \"math\"")
        i5 == PushIf(i4,
                     Includes(code, <<"f","u","n","c">>) /\ ~Includes(code, <<"e","r","r","o","r">>),
                     "Considerar anadir manejo de errores (Go idiomatico)")
    IN  PushIf(i5,
               Includes(code, <<"[">>) /\ Includes(code, <<":">>) /\ ~Includes(code, <<"l","e","n","(">>),
               "Verificar bounds en slice operations")

\* validateSyntax.php of part_000
validatePhpLib(code) ==
    PushIf(<<>>,
           Includes(code, <<"f","u","n","c","t","i","o","n">>) /\ ~Includes(code, <<"<","?","p","h","p">>),
           "Falta etiqueta de apertura PHP")

\* validateSyntax.javascript of part_000
validateJavascriptLib(code) == <<>>

\* validateSyntax.csharp of part_000
validateCSharpLib(code) ==
    PushIf(<<>>,
           Includes(code, <<"C","o","n","s","o","l","e",".","W","r","i","t","e","L","i","n",
                            "e">>) /\ ~Includes(code, <<"u","s","i","n","g"," ","S","y","s","t","e","m">>),
           "Falta using System;")

\* Math.max(a, b)
MathMax(a, b) == IF a >= b THEN a ELSE b

\* the constants of getConfidenceScore in App.jsx
BaseScore == 95

PenaltyPerIssue == 15

\* the constants of getConfidenceScore in part_000
BaseScoreLib == 95

PenaltyPerIssueLib == 10

\* validationIssues[language] || []
IssuesOf(issues, language) == IF language \in DOMAIN issues THEN issues[language] ELSE <<>>

\* a faulty getConfidenceScore: the floor Math.max(..., 0) is missing
getConfidenceScoreNoFloor(issues, language) ==
    BaseScore - Len(IssuesOf(issues, language)) * PenaltyPerIssue

\* getConfidenceScore of App.jsx, reading the validationIssues state
getConfidenceScore(issues, language) ==
    LET penalty == Len(IssuesOf(issues, language)) * PenaltyPerIssue
    IN  MathMax(BaseScore - penalty, 0)

\* getConfidenceScore of part_000
getConfidenceScoreLib(issues, language) ==
    LET penalty == Len(IssuesOf(issues, language)) * PenaltyPerIssueLib
    IN  MathMax(BaseScoreLib - penalty, 0)

(***************************************************************************)
(* The calls of handleTranslateAll, by revision and target                 *)
(***************************************************************************)
\* new ContextAnalyzer()
newAnalyzer(version) == IF version = "App.jsx" THEN NewAnalyzer ELSE NewAnalyzerLib

\* self.analyzeCode(code): the analyzer's fields after the call
analyzeWith(version, self, code) ==
    IF version = "App.jsx" THEN analyzeCode(self, code) ELSE analyzeCodeLib(self, code)

\* new ContextAnalyzer().analyzeCode(code): the Context of a fresh analyzer
analyze(version, code) == analyzeWith(version, newAnalyzer(version), code)

\* this.inferType(value)
infer(version, value) == IF version = "App.jsx" THEN inferType(value) ELSE inferTypeLib(value)

translate(version, target, code, ctx) ==
    IF version = "App.jsx"
    THEN CASE target = "go" -> translateToGo(code, ctx)
           [] target = "php" -> translateToPhp(code, ctx)
           [] target = "javascript" -> translateToJs(code, ctx)
           [] target = "csharp" -> translateToCSharp(code, ctx)
    ELSE CASE target = "go" -> translateToGoLib(code, ctx)
           [] target = "php" -> translateToPhpLib(code, ctx)
           [] target = "javascript" -> translateToJsLib(code, ctx)
           [] target = "csharp" -> translateToCSharpLib(code, ctx)

validate(version, target, text) ==
    IF version = "App.jsx"
    THEN CASE target = "go" -> validateGo(text)
           [] target = "php" -> validatePhp(text)
           [] target = "javascript" -> validateJavascript(text)
           [] target = "csharp" -> validateCSharp(text)
    ELSE CASE target = "go" -> validateGoLib(text)
           [] target = "php" -> validatePhpLib(text)
           [] target = "javascript" -> validateJavascriptLib(text)
           [] target = "csharp" -> validateCSharpLib(text)

score(version, issues, language) ==
    IF version = "App.jsx" THEN getConfidenceScore(issues, language)
    ELSE getConfidenceScoreLib(issues, language)

(***************************************************************************)
(* The lookups of the analysis report (handleLanguageClick of App.jsx)     *)
(***************************************************************************)
\* undefined: the value of a property an object does not have.  It is no text.
Undefined == <<"undefined">>

\* obj[key]
Property(obj, key) == IF key \in DOMAIN obj THEN obj[key] ELSE Undefined

\* libraryMapping[lib] ? libraryMapping[lib][language] : 'No disponible'
libraryEquivalent(lib, language) ==
    IF lib \in DOMAIN libraryMapping
    THEN Property(libraryMapping[lib], language)
    ELSE <<"N","o"," ","d","i","s","p","o","n","i","b","l","e">>

\* a kind written out, as the template literal prints it
KindText ==
    [int |-> <<"i","n","t">>, float |-> <<"f","l","o","a","t">>, string |-> <<"s","t","r","i","n","g">>, list |-> <<"l","i","s","t">>,
     array |-> <<"a","r","r","a","y">>, bool |-> <<"b","o","o","l">>, unknown |-> <<"u","n","k","n","o","w","n">>]

\* typeMapping[type] ? typeMapping[type][language] : type
mappedType(type, language) ==
    IF type \in DOMAIN typeMapping
    THEN Property(typeMapping[type], language)
    ELSE KindText[type]

(***************************************************************************)
(* Inputs                                                                  *)
(***************************************************************************)
\* how many lines a source text has at most
MaxLines == 2

\* the lines source texts are made of
Lines ==
    {<<"x"," ","="," ","5">>, <<"x"," ","="," ","3",".","1","4">>, <<"x"," ","=","="," ","5">>, <<"f","(","k","=","1",")">>, <<"s"," ","="," ","\"","}","}","\"">>, <<"p","r","i","n","t","(","\"","h","i","\"",")">>,
     <<"d","e","f"," ","f","(","a",")",":">>, <<"f","o","r"," ","i"," ","i","n"," ","r","a","n",
                                          "g","e","(","3",")",":">>, <<"#"," ","f","u","n","c"," ","c","l","a","s","s",
                                          " ","f","u","n","c","t","i","o","n">>, <<"a"," ","="," ","n","p",".","a","r","r","a","y",
                                          "(","d",")">>,
     <<"s","c","a","l","e","r"," ","="," ","M","i","n","M","a","x","S","c","a","l","e","r",
       "(",")">>, <<"n"," ","="," ","i","n","p","u","t","(","\"","?",
                                          "\"",")">>, <<"x",","," ","y"," ","="," ","[","]",","," ","[",
                                          "]">>, <<"x",".","a","p","p","e","n","d","(","y",")">>}

\* the texts of at most n lines
SourcesOf(lines, n) ==
    {Join(ls, <<"\n">>) : ls \in UNION {[1..k -> lines] : k \in 0..n}}

Sources == SourcesOf(Lines, MaxLines)

(***************************************************************************)
(* State                                                                   *)
(***************************************************************************)
VARIABLES
    version,           \* which revision runs
    pythonCode,        \* the source text
    pending,           \* the effect on pythonCode has not run yet
    raised,            \* the last run of handleTranslateAll ended in an exception
    returned,          \* target -> what its translateTo... call did: [threw, text]
    analyzer,          \* the fields of a ContextAnalyzer instance
    context,           \* the Context the last analyzeCode call returned
    translations,      \* target -> translated text
    validationIssues,  \* target -> the warnings of its validator
    confidence,        \* target -> the score getConfidenceScore renders
    history,           \* the texts one analyzer has analysed, in call order; in SpecOrder
                       \* the targets whose translator has been called, in call order
    value,             \* the right-hand side given to inferType
    kind,              \* what inferType returned for value
    analysisInfo,      \* the analysis the last completed run published
    selectedLanguage,  \* the target whose card was clicked last
    observationsData,  \* the report built by that click
    handed,            \* the Contexts one analyzer has returned: as returned, and now
    lookup             \* the arguments and the result of a table lookup

vars == <<version, pythonCode, pending, raised, returned, analyzer, context, translations,
          validationIssues, confidence, history, value, kind, analysisInfo,
          selectedLanguage, observationsData, handed, lookup>>

\* {} : an object without keys
Empty == <<>>

\* a variable the specification at hand does not use
Unused == "unused"

(***************************************************************************)
(* Spec: one run of handleTranslateAll on a source text.  The run is the   *)
(* effect of the last change of pythonCode; it replaces everything an      *)
(* earlier run published, so the state before it starts empty.             *)
(***************************************************************************)
Init ==
    /\ version \in Versions
    /\ pythonCode \in Sources
    /\ pending = TRUE
    /\ raised = FALSE
    /\ returned = Empty
    /\ analyzer = Empty
    /\ context = Empty
    /\ translations = Empty
    /\ validationIssues = Empty
    /\ confidence = [t \in Targets |-> score(version, Empty, t)]
    /\ analysisInfo = Empty
    /\ history = Unused
    /\ value = Unused
    /\ kind = Unused
    /\ selectedLanguage = Unused
    /\ observationsData = Unused
    /\ handed = Unused
    /\ lookup = Unused

\* a faulty handler: it keeps the analyzer of the run before
keptAnalyzer == IF analyzer = Empty THEN newAnalyzer(version) ELSE analyzer

\* const analyzer = new ContextAnalyzer()
freshAnalyzer == newAnalyzer(version)

\* a faulty translator: it records its target among the imports of the Context
contextAfterAdding(target, ctx) == [ctx EXCEPT !.imports = SetAdd(@, target)]

\* a faulty translator: it clears the imports of the Context it was given
contextAfterClearing(target, ctx) == [ctx EXCEPT !.imports = <<>>]

\* the Context after translateTo...(code, context): a translator only reads it
\* (imports.has, variables.has, getVariableType), and a validator never gets it
contextAfter(target, ctx) == ctx

\* the Context after the four translateTo... calls, in the handler's order
afterCalls(ctx) ==
    contextAfter("csharp", contextAfter("javascript", contextAfter("php", contextAfter("go", ctx))))

\* the argument of setAnalysisInfo: Array.from copies the entries of each Map and Set
analysisInfoOf(rev, ctx) ==
    IF rev = "App.jsx"
    THEN [variables |-> ctx.variables, functions |-> ctx.functions, imports |-> ctx.imports,
          dataStructures |-> ctx.dataStructures,
          hasBasicOperations |-> ctx.hasBasicOperations]
    ELSE [variables |-> ctx.variables, functions |-> ctx.functions, imports |-> ctx.imports,
          dataStructures |-> ctx.dataStructures]

\* the end of handleTranslateAll: a translator that raised ends the run before
\* any setter is called; otherwise the validators run and the setters publish
setStates(results, ctx) ==
    IF \E t \in Targets : results[t].threw
    THEN /\ raised' = TRUE
         /\ UNCHANGED <<translations, validationIssues, confidence, analysisInfo>>
    ELSE /\ raised' = FALSE
         /\ translations' = [t \in Targets |-> results[t].text]
         /\ validationIssues' = [t \in Targets |-> validate(version, t, results[t].text)]
         /\ confidence' = [t \in Targets |-> score(version, validationIssues', t)]
         /\ analysisInfo' = analysisInfoOf(version, ctx)

\* handleTranslateAll, whoever calls it
run ==
    /\ pending' = FALSE
    /\ analyzer' = analyzeWith(version, freshAnalyzer, pythonCode)
    /\ returned' = [t \in Targets |-> translate(version, t, pythonCode, analyzer')]
    /\ context' = afterCalls(analyzer')
    /\ setStates(returned', context')
    /\ UNCHANGED <<version, pythonCode, history, value, kind, selectedLanguage,
                   observationsData, handed, lookup>>

\* useEffect(() => { handleTranslateAll(); }, [pythonCode])
handleTranslateAll == pending /\ run

Next == handleTranslateAll

Spec == Init /\ [][Next]_vars

(***************************************************************************)
(* SpecAnalyzer: one ContextAnalyzer instance and the analyzeCode calls    *)
(* made on it.                                                             *)
(***************************************************************************)
\* how many analyzeCode calls one analyzer gets
MaxCalls == 2

\* the texts given to analyzeCode
Snippets == SourcesOf(Lines, 1)

InitAnalyzer ==
    /\ version \in Versions
    /\ analyzer = newAnalyzer(version)
    /\ context = Empty
    /\ history = <<>>
    /\ pythonCode = Unused
    /\ pending = Unused
    /\ raised = Unused
    /\ returned = Unused
    /\ translations = Unused
    /\ validationIssues = Unused
    /\ confidence = Unused
    /\ value = Unused
    /\ kind = Unused
    /\ analysisInfo = Unused
    /\ selectedLanguage = Unused
    /\ observationsData = Unused
    /\ handed = <<>>
    /\ lookup = Unused

\* a Context returned earlier, read once the analyzer's fields are self: the object
\* returned holds the analyzer's own Maps and Sets, and a copy of hasBasicOperations
readNow(rev, ctx, self) ==
    IF rev = "App.jsx"
    THEN [self EXCEPT !.hasBasicOperations = ctx.hasBasicOperations]
    ELSE self

\* analyzer.analyzeCode(code)
AnalyzeCode(code) ==
    /\ Len(history) < MaxCalls
    /\ analyzer' = analyzeWith(version, analyzer, code)
    /\ context' = analyzer'
    /\ history' = Append(history, code)
    /\ handed' = [i \in 1..Len(handed) |->
                     [asReturned |-> handed[i].asReturned,
                      now |-> readNow(version, handed[i].now, analyzer')]]
                  \o <<[asReturned |-> context', now |-> context']>>
    /\ UNCHANGED <<version, pythonCode, pending, raised, returned, translations, validationIssues,
                   confidence, value, kind, analysisInfo, selectedLanguage,
                   observationsData, lookup>>

NextAnalyzer == \E code \in Snippets : AnalyzeCode(code)

SpecAnalyzer == InitAnalyzer /\ [][NextAnalyzer]_vars

(***************************************************************************)
(* SpecInfer: inferType on one right-hand side                             *)
(***************************************************************************)
\* how many pieces a right-hand side is made of at most
MaxAtoms == 2

\* the pieces right-hand sides are made of
Atoms == {<<"[","]">>, <<"n","p",".","a","r","r","a","y">>, <<"1">>, <<".">>, <<"\"">>, <<"'">>, <<"T","r","u","e">>, <<"F","a","l","s","e">>, <<" ">>, <<"a">>}

Values == {Flatten(ps) : ps \in UNION {[1..k -> Atoms] : k \in 0..MaxAtoms}}

InitInfer ==
    /\ version \in Versions
    /\ value \in Values
    /\ kind = ""
    /\ pythonCode = Unused
    /\ pending = Unused
    /\ raised = Unused
    /\ returned = Unused
    /\ analyzer = Unused
    /\ context = Unused
    /\ translations = Unused
    /\ validationIssues = Unused
    /\ confidence = Unused
    /\ history = Unused
    /\ analysisInfo = Unused
    /\ selectedLanguage = Unused
    /\ observationsData = Unused
    /\ handed = Unused
    /\ lookup = Unused

\* let type = this.inferType(value)
InferType ==
    /\ kind = ""
    /\ kind' = infer(version, value)
    /\ UNCHANGED <<version, pythonCode, pending, raised, returned, analyzer, context, translations,
                   validationIssues, confidence, history, value, analysisInfo,
                   selectedLanguage, observationsData, handed, lookup>>

NextInfer == InferType

SpecInfer == InitInfer /\ [][NextInfer]_vars

(***************************************************************************)
(* SpecScore: getConfidenceScore on the validationIssues state, for        *)
(* warning lists of any length                                             *)
(***************************************************************************)
\* how many warnings a target has at most
MaxWarnings == 10

InitScore ==
    /\ version \in Versions
    /\ validationIssues = Empty
    /\ confidence = [t \in Targets |-> score(version, validationIssues, t)]
    /\ pythonCode = Unused
    /\ pending = Unused
    /\ raised = Unused
    /\ returned = Unused
    /\ analyzer = Unused
    /\ context = Unused
    /\ translations = Unused
    /\ history = Unused
    /\ value = Unused
    /\ kind = Unused
    /\ analysisInfo = Unused
    /\ selectedLanguage = Unused
    /\ observationsData = Unused
    /\ handed = Unused
    /\ lookup = Unused

\* issues.push(...) on the list of one target, setValidationIssues and the render
PushIssue(language) ==
    /\ Len(IssuesOf(validationIssues, language)) < MaxWarnings
    /\ validationIssues' =
          [t \in Targets |->
              IF t = language
              THEN Append(IssuesOf(validationIssues, t), "Falta import \"fmt\"")
              ELSE IssuesOf(validationIssues, t)]
    /\ confidence' = [t \in Targets |-> score(version, validationIssues', t)]
    /\ UNCHANGED <<version, pythonCode, pending, raised, returned, analyzer, context, translations,
                   history, value, kind, analysisInfo, selectedLanguage,
                   observationsData, handed, lookup>>

NextScore == \E language \in Targets : PushIssue(language)

SpecScore == InitScore /\ [][NextScore]_vars
(***************************************************************************)
(* SpecIdioms: one run of handleTranslateAll on a source text made of the  *)
(* statements the translators have a rewrite for                           *)
(***************************************************************************)
\* the statements, at top level and inside a function body, and an append to a
\* name that follows text of the target
IdiomLines ==
    {<<"p","r","i","n","t","(","\"","h","i","\"",")">>, <<"p","r","i","n","t","(","a",")",";"," ","p","r",
                                          "i","n","t","(","b",")">>, <<"a",","," ","b"," ","="," ","[","]",","," ","[",
                                          "]">>, <<" "," "," "," ","a",","," ","b"," ","="," ","[",
                                          "]",","," ","[","]">>,
     <<"f","o","r"," ","i"," ","i","n"," ","r","a","n","g","e","(","n",")",":">>, <<"d","e","f"," ","f","(","a",")",":">>, <<"d","e","f"," ","f","(","i","n","d","e","x",")",
                                          ":">>, <<"d","e","f"," ","f","(","x",")",":">>, <<"x",".","a","p","p","e","n","d","(","y",")">>,
     <<"x"," ","="," ","5">>, <<"#"," ","a"," ","f","u","n","c"," ">>, <<"a"," ","="," ","n","p",".","a","r","r","a","y",
                                          "(","d",")",".","r","e","s","h","a","p","e","(","-",
                                          "1",","," ","1",")">>, <<"s","c","a","l","e","r"," ","="," ","M","i","n",
                                          "M","a","x","S","c","a","l","e","r","(",")">>,
     <<"s","c","a","l","e","d"," ","="," ","s","c","a","l","e","r",".","f","i","t","_","t",
       "r","a","n","s","f","o","r","m","(","d",")">>, <<"<","?","p","h","p",".","a","p","p","e","n","d",
                                          "(","p","r","i","n","t","(","x",")",")">>}

Idioms == SourcesOf(IdiomLines, MaxLines)

InitIdioms ==
    /\ version \in Versions
    /\ pythonCode \in Idioms
    /\ pending = TRUE
    /\ raised = FALSE
    /\ returned = Empty
    /\ analyzer = Empty
    /\ context = Empty
    /\ translations = Empty
    /\ validationIssues = Empty
    /\ confidence = [t \in Targets |-> score(version, Empty, t)]
    /\ analysisInfo = Empty
    /\ history = Unused
    /\ value = Unused
    /\ kind = Unused
    /\ selectedLanguage = Unused
    /\ observationsData = Unused
    /\ handed = Unused
    /\ lookup = Unused

SpecIdioms == InitIdioms /\ [][Next]_vars

(***************************************************************************)
(* SpecApp: the component over its life: the text is edited, each change   *)
(* of it runs handleTranslateAll as an effect, and a click on a target's   *)
(* card builds the report of that target (App.jsx) or a click on the       *)
(* button runs handleTranslateAll again (part_000).  An exception thrown   *)
(* in the effect unmounts the component: nothing happens after it.         *)
(***************************************************************************)
\* the texts typed into the textarea
Edits == {<<>>, <<"x"," ","="," ","5">>, <<"#"," ","f","u","n","c"," ","c","l","a","s","s",
                                          " ","f","u","n","c","t","i","o","n">>, <<"p","r","i","n","t","(","\"","h","i","\"",")">>, <<"a"," ","="," ","n","p",".","a","r","r","a","y",
                                          "(","d",")">>}

\* useState(null)
Null == "null"

InitApp ==
    /\ version \in Versions
    /\ pythonCode \in Edits
    /\ pending = TRUE
    /\ raised = FALSE
    /\ returned = Empty
    /\ analyzer = Empty
    /\ context = Empty
    /\ translations = Empty
    /\ validationIssues = Empty
    /\ confidence = [t \in Targets |-> score(version, Empty, t)]
    /\ analysisInfo = Empty
    /\ selectedLanguage = Null
    /\ observationsData = Empty
    /\ history = Unused
    /\ value = Unused
    /\ kind = Unused
    /\ handed = Unused
    /\ lookup = Unused

\* onChange={(e) => setPythonCode(e.target.value)}: a new text makes the effect due
setPythonCode(code) ==
    /\ ~pending
    /\ ~raised
    /\ code # pythonCode
    /\ pythonCode' = code
    /\ pending' = TRUE
    /\ UNCHANGED <<version, raised, returned, analyzer, context, translations,
                   validationIssues, confidence, history, value, kind, analysisInfo,
                   selectedLanguage, observationsData, handed, lookup>>

\* onClick={handleTranslateAll}: the button of part_000
onClickTranslate ==
    /\ version = "part_000"
    /\ ~pending
    /\ ~raised
    /\ run

\* language.toUpperCase()
toUpperCase(language) ==
    CASE language = "go" -> "GO"
      [] language = "php" -> "PHP"
      [] language = "javascript" -> "JAVASCRIPT"
      [] language = "csharp" -> "CSHARP"

\* analysisInfo.variables || [], analysisInfo.imports || []
FieldOr(obj, field) == IF field \in DOMAIN obj THEN obj[field] ELSE <<>>

\* the lines under "OPERACIONES BASICAS DETECTADAS"
operationLines ==
    IF "hasBasicOperations" \in DOMAIN analysisInfo /\ analysisInfo.hasBasicOperations
    THEN <<"print()">>
         \o (IF Includes(pythonCode, <<"i","n","p","u","t","(">>) THEN <<"input()">> ELSE <<>>)
         \o (IF Includes(pythonCode, <<"l","e","n","(">>) THEN <<"len()">> ELSE <<>>)
    ELSE <<>>

\* the text handleLanguageClick builds, section by section
observations(language) ==
    LET imports == FieldOr(analysisInfo, "imports")
        variables == FieldOr(analysisInfo, "variables")
    IN  [title |-> toUpperCase(language),
         confidence |-> getConfidenceScore(validationIssues, language),
         operations |-> operationLines,
         libraries |-> [i \in 1..Len(imports) |->
                          <<imports[i], libraryEquivalent(imports[i], language)>>],
         variables |-> [i \in 1..Len(variables) |->
                          <<variables[i][1], variables[i][2],
                            mappedType(variables[i][2], language)>>],
         issues |-> IssuesOf(validationIssues, language),
         recommendations |-> language]

\* onClick={() => handleLanguageClick(language)}: the cards of App.jsx
handleLanguageClick(language) ==
    /\ version = "App.jsx"
    /\ ~pending
    /\ ~raised
    /\ selectedLanguage' = language
    /\ observationsData' = observations(language)
    /\ UNCHANGED <<version, pythonCode, pending, raised, returned, analyzer, context,
                   translations, validationIssues, confidence, history, value, kind,
                   analysisInfo, handed, lookup>>

NextApp ==
    \/ \E code \in Edits : setPythonCode(code)
    \/ handleTranslateAll
    \/ onClickTranslate
    \/ \E language \in Targets : handleLanguageClick(language)

SpecApp == InitApp /\ [][NextApp]_vars

(***************************************************************************)
(* SpecReport: the two table lookups of the report of App.jsx, on any      *)
(* kind, library name and target identifier                                *)
(***************************************************************************)
\* what inferType returns
Kinds == {"int", "float", "string", "list", "array", "bool", "unknown"}

\* the names imports.forEach may hand over, and one the table has no row for
LibraryNames == {"numpy", "sklearn", "pandas"}

\* the keys of translations, the key js of typeMapping, and one no table has
TargetIds == Targets \cup {"js", "rust"}

InitReport ==
    /\ version = "App.jsx"
    /\ lookup \in [type : Kinds, lib : LibraryNames, language : TargetIds, done : {FALSE},
                   mappedType : {Empty}, equivalent : {Empty}]
    /\ pythonCode = Unused
    /\ pending = Unused
    /\ raised = Unused
    /\ returned = Unused
    /\ analyzer = Unused
    /\ context = Unused
    /\ translations = Unused
    /\ validationIssues = Unused
    /\ confidence = Unused
    /\ history = Unused
    /\ value = Unused
    /\ kind = Unused
    /\ analysisInfo = Unused
    /\ selectedLanguage = Unused
    /\ observationsData = Unused
    /\ handed = Unused

\* const equivalent = ...; const mappedType = ...
lookUp ==
    /\ ~lookup.done
    /\ lookup' = [lookup EXCEPT !.done = TRUE,
                                !.mappedType = mappedType(lookup.type, lookup.language),
                                !.equivalent = libraryEquivalent(lookup.lib, lookup.language)]
    /\ UNCHANGED <<version, pythonCode, pending, raised, returned, analyzer, context,
                   translations, validationIssues, confidence, history, value, kind,
                   analysisInfo, selectedLanguage, observationsData, handed>>

NextReport == lookUp

SpecReport == InitReport /\ [][NextReport]_vars


(***************************************************************************)
(* SpecValidate: the four validators of validateSyntax on any text handed  *)
(* to them                                                                 *)
(***************************************************************************)
\* the pieces of target text the tests of the validators look for
Fragments ==
    {<<"f","u","n","c">>, <<"f","u","n","c"," ","f","(","a",")"," ","{">>, <<"f","u","n","c"," ","f","(","a"," ","i","n","t",
                                          ")"," ","(","y"," ","i","n","t",","," ","e","r","r",
                                          " ","e","r","r","o","r",")"," ","{">>, <<"f","u","n","c"," ","m","a","i","n","(",")">>,
     <<"f","m","t",".","P","r","i","n","t","l","n","(","x",")">>, <<"i","m","p","o","r","t"," ","\"","f","m","t",
                                          "\"">>, <<"m","a","t","h",".","S","q","r","t","(","x",")">>, <<"\"","m","a","t","h","\"">>, <<"y"," ","="," ","x","[","1",":","2","]">>, <<"l","e","n","(","x",")">>,
     <<"e","c","h","o"," ","$","x",";">>, <<"p","r","i","n","t","(","$","x",")",";">>, <<"<","?","p","h","p">>, <<"f","u","n","c","t","i","o","n"," ","f","(","$",
                                          "a",")"," ","{">>, <<"C","o","n","s","o","l","e",".","W","r","i","t",
                                          "e","L","i","n","e","(","x",")",";">>,
     <<"u","s","i","n","g"," ","S","y","s","t","e","m",";">>, <<"p","u","b","l","i","c"," ","s","t","a","t","i",
                                          "c"," ","v","o","i","d"," ","F","(",")">>, <<"c","l","a","s","s"," ","P">>}

Texts == SourcesOf(Fragments, MaxLines)

InitValidate ==
    /\ version \in Versions
    /\ returned \in {[t \in Targets |-> [threw |-> FALSE, text |-> code]] : code \in Texts}
    /\ pending = TRUE
    /\ validationIssues = Empty
    /\ confidence = [t \in Targets |-> score(version, Empty, t)]
    /\ pythonCode = Unused
    /\ raised = Unused
    /\ analyzer = Unused
    /\ context = Unused
    /\ translations = Unused
    /\ history = Unused
    /\ value = Unused
    /\ kind = Unused
    /\ analysisInfo = Unused
    /\ selectedLanguage = Unused
    /\ observationsData = Unused
    /\ handed = Unused
    /\ lookup = Unused

\* const goIssues = validateSyntax.go(goTranslation); ... setValidationIssues({...})
validateSyntax ==
    /\ pending
    /\ pending' = FALSE
    /\ validationIssues' = [t \in Targets |-> validate(version, t, returned[t].text)]
    /\ confidence' = [t \in Targets |-> score(version, validationIssues', t)]
    /\ UNCHANGED <<version, pythonCode, raised, returned, analyzer, context, translations,
                   history, value, kind, analysisInfo, selectedLanguage,
                   observationsData, handed, lookup>>

NextValidate == validateSyntax

SpecValidate == InitValidate /\ [][NextValidate]_vars

(***************************************************************************)
(* SpecOrder: the four translator calls and the four validator calls of    *)
(* handleTranslateAll as steps of their own, taken in any order, a         *)
(* validator after the translator of its target                            *)
(***************************************************************************)
\* the sources of the runs
OrderedSources == {<<"x"," ","="," ","5">>, <<"p","r","i","n","t","(","\"","h","i","\"",")">>, <<"a"," ","="," ","n","p",".","a","r","r","a","y",
                                          "(","d",")">>}

InitOrder ==
    /\ version \in Versions
    /\ pythonCode \in OrderedSources
    /\ analyzer = analyze(version, pythonCode)
    /\ history = <<>>
    /\ raised = FALSE
    /\ returned = Empty
    /\ validationIssues = Empty
    /\ pending = Unused
    /\ context = Unused
    /\ translations = Unused
    /\ confidence = Unused
    /\ value = Unused
    /\ kind = Unused
    /\ analysisInfo = Unused
    /\ selectedLanguage = Unused
    /\ observationsData = Unused
    /\ handed = Unused
    /\ lookup = Unused

\* obj[key] = item
With(obj, key, item) ==
    [k \in DOMAIN obj \cup {key} |-> IF k = key THEN item ELSE obj[k]]

\* const goTranslation = translateToGo(pythonCode, context), and the same call of
\* another target
translateCall(language) ==
    /\ ~raised
    /\ language \notin DOMAIN returned
    /\ returned' = With(returned, language, translate(version, language, pythonCode, analyzer))
    /\ raised' = returned'[language].threw
    /\ analyzer' = contextAfter(language, analyzer)
    /\ history' = Append(history, language)
    /\ UNCHANGED <<version, pythonCode, pending, context, translations, validationIssues,
                   confidence, value, kind, analysisInfo, selectedLanguage,
                   observationsData, handed, lookup>>

\* const goIssues = validateSyntax.go(goTranslation), and the same call of another
\* target
validateCall(language) ==
    /\ ~raised
    /\ language \in DOMAIN returned
    /\ language \notin DOMAIN validationIssues
    /\ validationIssues' =
          With(validationIssues, language, validate(version, language, returned[language].text))
    /\ UNCHANGED <<version, pythonCode, pending, raised, returned, analyzer, context,
                   translations, confidence, history, value, kind, analysisInfo,
                   selectedLanguage, observationsData, handed, lookup>>

NextOrder ==
    \/ \E language \in Targets : translateCall(language)
    \/ \E language \in Targets : validateCall(language)

SpecOrder == InitOrder /\ [][NextOrder]_vars

(***************************************************************************)
(* Properties                                                              *)
(***************************************************************************)
\* the run of handleTranslateAll has ended and published its results
Published == ~pending /\ ~raised

\* the members of a sequence
Members(seq) == {seq[i] : i \in 1..Len(seq)}

\* C1: on every source, each of the four translators returns a string: no run of
\* the translators ends in an exception, whatever the braces of the text
TranslateNeverRaises == ~raised

\* C2: a translated text that has a "{" has as many "{" as "}"
BracesBalanced ==
    Published =>
        \A t \in Targets :
            CountChar(translations[t], "{") > 0
                => CountChar(translations[t], "{") = CountChar(translations[t], "}")

\* the constants of the revision's getConfidenceScore
Base(v) == IF v = "App.jsx" THEN BaseScore ELSE BaseScoreLib

Penalty(v) == IF v = "App.jsx" THEN PenaltyPerIssue ELSE PenaltyPerIssueLib

\* C3: the score of a target is max(BASE - PENALTY * n, 0) for its n warnings: an
\* integer in 0..100, BASE when n = 0; one more warning lowers it by exactly PENALTY
\* down to the floor 0 and never raises it
ScoreIsFlooredLinear ==
    /\ [](\A t \in Targets :
            LET n == Len(IssuesOf(validationIssues, t))
            IN  /\ confidence[t] = MathMax(Base(version) - Penalty(version) * n, 0)
                /\ confidence[t] \in 0..100
                /\ n = 0 => confidence[t] = Base(version))
    /\ [][\A t \in Targets :
            Len(IssuesOf(validationIssues', t)) = Len(IssuesOf(validationIssues, t)) + 1
                => /\ confidence'[t] = MathMax(confidence[t] - Penalty(version), 0)
                   /\ confidence'[t] <= confidence[t]]_vars

\* C3: a target whose warnings brought its score down to the floor, one warning
\* after a positive score
ScoreAtFloor ==
    \E t \in Targets :
        /\ confidence[t] = 0
        /\ score(version, [validationIssues EXCEPT ![t] = Tail(@)], t) > 0

\* C4: the Context a call returns is the Context a fresh analyzer returns for the
\* text of that call alone, whatever the analyzer analysed before
NoCrossCallLeakage ==
    history # <<>> => context = analyze(version, history[Len(history)])

\* C5: analysing a text on a fresh analyzer returns the Context of that text, and
\* analysing the same text once more on the same analyzer returns an equal Context
AnalysisIsIdempotent ==
    [][/\ history = <<>> => context' = analyze(version, history'[1])
       /\ (history # <<>> /\ history' = Append(history, history[Len(history)]))
             => context' = context]_vars

\* C5: a text with a function definition analysed twice on one analyzer, the
\* function recorded once
AnalysedTwice ==
    /\ Len(history) = 2
    /\ history[1] = history[2]
    /\ Test(PatFunc, history[1])
    /\ Len(context.functions) = 1

\* the name a line assigns to, when the line is identifier = expression: <<>> otherwise
AssignedName(line) ==
    IF \E e \in 1..Len(line) : line[e] = "="
    THEN LET e == CHOOSE i \in 1..Len(line) : line[i] = "=" /\ \A j \in 1..(i - 1) : line[j] # "="
             name == Trim(SubSeq(line, 1, e - 1))
         IN  IF /\ name # <<>>
                /\ \A i \in 1..Len(name) : InClass(name[i], ClsW)
                /\ e < Len(line)
                /\ line[e + 1] # "="
                /\ Trim(SubSeq(line, e + 1, Len(line))) # <<>>
             THEN name
             ELSE <<>>
    ELSE <<>>

\* the expression of a line identifier = expression
AssignedValue(line) ==
    SubSeq(line, 1 + CHOOSE i \in 1..Len(line) : line[i] = "=" /\ \A j \in 1..(i - 1) : line[j] # "=",
           Len(line))

\* C6: the variable map has exactly the names assigned by lines of the form
\* identifier = expression, each with the kind of the expression of the last
\* such line; a comparison or a keyword argument adds no entry
VariablesAreTheAssignments ==
    ~pending =>
        LET lines == Split(pythonCode, "\n")
            assigning == {i \in 1..Len(lines) : AssignedName(lines[i]) # <<>>}
            last(name) == CHOOSE i \in assigning :
                             /\ AssignedName(lines[i]) = name
                             /\ \A j \in assigning : AssignedName(lines[j]) = name => j <= i
        IN  /\ {context.variables[i][1] : i \in 1..Len(context.variables)}
                  = {AssignedName(lines[i]) : i \in assigning}
            /\ \A i \in 1..Len(context.variables) :
                  LET name == context.variables[i][1]
                  IN  \A j \in 1..Len(context.variables) :
                          context.variables[j][1] = name => j = i
            /\ \A i \in assigning :
                  getVariableType(context, AssignedName(lines[i]))
                      = infer(version, AssignedValue(lines[last(AssignedName(lines[i]))]))

\* digits only, and at least one
OnlyDigits(s) == s # <<>> /\ \A i \in 1..Len(s) : s[i] \in Digit

\* the kind of the first rule an expression matches, in the order list, array, int,
\* float, string, bool
FirstMatchingRule(expr) ==
    IF Includes(expr, <<"[","]">>) THEN "list"
    ELSE IF Includes(expr, <<"n","p",".","a","r","r","a","y">>) THEN "array"
    ELSE IF OnlyDigits(Trim(expr)) THEN "int"
    ELSE IF \E d \in 1..Len(Trim(expr)) :
               /\ Trim(expr)[d] = "."
               /\ OnlyDigits(SubSeq(Trim(expr), 1, d - 1))
               /\ OnlyDigits(SubSeq(Trim(expr), d + 1, Len(Trim(expr))))
         THEN "float"
    ELSE IF Includes(expr, <<"\"">>) \/ Includes(expr, <<"'">>) THEN "string"
    ELSE IF Includes(expr, <<"T","r","u","e">>) \/ Includes(expr, <<"F","a","l","s","e">>) THEN "bool"
    ELSE "unknown"

\* C7: inferType returns the kind of the first matching rule, and unknown only when
\* none of the six rules matches
KindIsFirstMatchingRule == kind # "" => kind = FirstMatchingRule(value)

\* C8: the detected libraries are numpy exactly when the text has "np." and sklearn
\* exactly when it has "MinMaxScaler", and nothing else
LibrariesAreDetected ==
    ~pending =>
        /\ Members(context.imports)
              = (IF Includes(pythonCode, <<"n","p",".">>) THEN {"numpy"} ELSE {})
                \cup (IF Includes(pythonCode, <<"M","i","n","M","a","x","S","c","a","l","e","r">>) THEN {"sklearn"} ELSE {})
        /\ Cardinality(Members(context.imports)) = Len(context.imports)

\* C8: a text with np.array( and MinMaxScaler, analysed: both libraries, nothing else
BothLibrariesDetected ==
    /\ ~pending
    /\ Includes(pythonCode, <<"n","p",".","a","r","r","a","y","(">>)
    /\ Includes(pythonCode, <<"M","i","n","M","a","x","S","c","a","l","e","r">>)
    /\ Members(context.imports) = {"numpy", "sklearn"}

\* how a target declares the function f
Declaration(t) ==
    CASE t = "go" -> <<"f","u","n","c"," ","f","(">>
      [] t = "php" -> <<"f","u","n","c","t","i","o","n"," ","f","(">>
      [] t = "javascript" -> <<"f","u","n","c","t","i","o","n"," ","f","(">>
      [] t = "csharp" -> <<")"," ","f","(">>

\* C9: a definition def f(...): of the source is rewritten in every target: the
\* output has the target's declaration of f and no "def f(" is left
DefinitionsAreRewritten ==
    (Published /\ Includes(pythonCode, <<"d","e","f"," ","f","(">>)) =>
        \A t \in Targets :
            /\ Includes(translations[t], Declaration(t))
            /\ ~Includes(translations[t], <<"d","e","f"," ","f","(">>)

\* C10: the Go and C# outputs have the entry-point function of the runnable-program
\* scaffold exactly when the source has no function definition
ScaffoldIffNoDefinition ==
    Published =>
        /\ Includes(translations["go"], <<"f","u","n","c"," ","m","a","i","n","(",")"," ",
                                          "{">>) <=> ~Test(PatFunc, pythonCode)
        /\ Includes(translations["csharp"], <<"s","t","a","t","i","c"," ","v","o","i","d"," ",
                                          "M","a","i","n","(">>) <=> ~Test(PatFunc, pythonCode)

\* how often s occurs in text
Occurrences(text, s) ==
    Cardinality({p \in 1..(Len(text) - Len(s) + 1) : SubSeq(text, p, p + Len(s) - 1) = s})

\* the console-output call of a target, as each revision writes it
OutputCall(rev, t) ==
    CASE t = "go" -> IF rev = "App.jsx" THEN <<"f","m","t",".","P","r","i","n","t","l","n","(">> ELSE <<"f","m","t",".","P","r","i","n","t","f","(">>
      [] t = "php" -> <<"e","c","h","o"," ">>
      [] t = "javascript" -> <<"c","o","n","s","o","l","e",".","l","o","g","(">>
      [] t = "csharp" -> <<"C","o","n","s","o","l","e",".","W","r","i","t","e","L","i","n",
                           "e","(">>

\* C11: every print call of the source becomes the target's console-output call, so
\* each output has that call exactly as often as the source has print calls
OneOutputCallPerPrint ==
    Published =>
        \A t \in Targets :
            /\ Occurrences(translations[t], OutputCall(version, t))
                  = Occurrences(pythonCode, <<"p","r","i","n","t","(">>)
            /\ ~Includes(translations[t], <<"p","r","i","n","t","(">>)

\* the two declarations a target writes for the names a and b, a first: the keyword,
\* the name and an empty collection, with any white space between them
TwoDeclarations(t) ==
    CASE t = "go" ->
           Regex(<<Seg(<<"a"," ",":","="," ","m","a","k","e","(">>, Star(ClsNotParen)), Seg(<<")">>, Star(ClsS)),
                   Seg(<<"b"," ",":","="," ","m","a","k","e","(">>, Star(ClsNotParen))>>, <<")">>)
      [] t = "php" ->
           Regex(<<Seg(<<"$","a">>, Star(ClsS)), Seg(<<"="," ","[","]",";">>, Star(ClsS)), Seg(<<"$","b">>, Star(ClsS))>>,
                 <<"="," ","[","]",";">>)
      [] t = "javascript" ->
           Regex(<<Seg(<<"l","e","t">>, Plus(ClsS)), Seg(<<"a">>, Star(ClsS)), Seg(<<"="," ","[","]",";">>, Star(ClsS)),
                   Seg(<<"l","e","t">>, Plus(ClsS)), Seg(<<"b">>, Star(ClsS))>>, <<"="," ","[","]",";">>)
      [] t = "csharp" ->
           Regex(<<Seg(<<"v","a","r">>, Plus(ClsS)), Seg(<<"a">>, Star(ClsS)),
                   Seg(<<"="," ","n","e","w"," ","L","i","s","t","<">>, Star(ClsNotParen)), Seg(<<"(",")",";">>, Star(ClsS)),
                   Seg(<<"v","a","r">>, Plus(ClsS)), Seg(<<"b">>, Star(ClsS)),
                   Seg(<<"="," ","n","e","w"," ","L","i","s","t","<">>, Star(ClsNotParen))>>, <<"(",")",";">>)

\* C12: a line a, b = [], [] of the source, at top level or indented, becomes in every
\* target two declarations of an empty collection, of a and then of b, and the dual
\* assignment is gone
DualAssignmentIsTwoDeclarations ==
    (Published /\ Includes(pythonCode, <<"a",","," ","b"," ","="," ","[","]",","," ","[",
                                         "]">>)) =>
        \A t \in Targets :
            /\ Test(TwoDeclarations(t), translations[t])
            /\ ~Includes(translations[t], <<"="," ","[","]",","," ","[","]">>)

\* a run has completed on the current text: the effect is done and nothing was raised
Completed == ~pending /\ ~raised

\* the Context of a fresh analyzer for the current text
FreshContext == analyze(version, pythonCode)

\* what a translator returns for the current text and that Context
FreshText(t) == translate(version, t, pythonCode, FreshContext).text

\* C13: once the run for the last change of the text has completed, the translations,
\* the warnings and the analysis published are those of one fresh run on the current
\* text, whatever texts were there before
PublishedIsFresh ==
    Completed =>
        /\ translations = [t \in Targets |-> FreshText(t)]
        /\ validationIssues = [t \in Targets |-> validate(version, t, FreshText(t))]
        /\ analysisInfo = analysisInfoOf(version, FreshContext)

\* C13: a run completed on print("hi") after a run on a text with an assignment, whose
\* variables a report still shows: nothing of them is in the published analysis
RunAfterEarlierText ==
    /\ Completed
    /\ pythonCode = <<"p","r","i","n","t","(","\"","h","i","\"",")">>
    /\ selectedLanguage # Null
    /\ observationsData.variables # <<>>
    /\ analysisInfo.variables = <<>>
    /\ analysisInfo.hasBasicOperations

\* the warnings of a target for the current text
FreshIssues(t) == validate(version, t, FreshText(t))

\* the score of a target for the current text
FreshScore(t) == score(version, [u \in Targets |-> FreshIssues(u)], t)

\* C14: after any edits and clicks, every confidence value and warning list shown for
\* a target, those of the report of the selected target included, is the one derived
\* from the current text
ExposedIsCurrent ==
    Completed =>
        /\ \A t \in Targets :
              /\ validationIssues[t] = FreshIssues(t)
              /\ confidence[t] = FreshScore(t)
        /\ selectedLanguage # Null =>
              /\ observationsData.issues = FreshIssues(selectedLanguage)
              /\ observationsData.confidence = FreshScore(selectedLanguage)

\* C15: the translate and validate calls leave the Context alone: after the four
\* translations and the four validations it holds what analyzeCode returned
ContextIsAsAnalysed == ~pending => context = FreshContext

\* C15: a run on a text with an assignment and a library: the translators were given
\* a Context that is not empty, and all four returned
ContextReadByTranslators ==
    /\ Completed
    /\ context.variables # <<>>
    /\ context.imports # <<>>
    /\ \A t \in Targets : ~returned[t].threw /\ translations[t] = returned[t].text

\* C16: a Context is never changed after analyzeCode returned it: whatever is called
\* later, a later analyzeCode on the same analyzer included, it reads as it was returned
ReturnedContextIsFrozen ==
    handed # Unused => \A i \in 1..Len(handed) : handed[i].now = handed[i].asReturned

\* C17: the type table is total over the published targets: for every kind but
\* unknown and each of go, php, javascript and csharp, the lookup of the report gives
\* a type name
TypeTableIsTotal ==
    (lookup.done /\ lookup.type # "unknown" /\ lookup.language \in Targets) =>
        /\ lookup.mappedType # Undefined
        /\ lookup.mappedType # <<>>

\* the entry of the library table, or the text "No disponible" where it has none
EntryOrSentinel(lib, language) ==
    IF lib \in DOMAIN libraryMapping /\ language \in DOMAIN libraryMapping[lib]
    THEN libraryMapping[lib][language]
    ELSE <<"N","o"," ","d","i","s","p","o","n","i","b","l","e">>

EmptyTextEmptyContext ==
    ~pending =>
        /\ pythonCode = <<>> =>
              /\ context.variables = <<>>
              /\ context.functions = <<>>
              /\ context.imports = <<>>
              /\ context.dataStructures = <<>>
              /\ "hasBasicOperations" \in DOMAIN context
              /\ ~context.hasBasicOperations
        /\ ("hasBasicOperations" \in DOMAIN context /\ context.hasBasicOperations) =>
              \/ Includes(pythonCode, <<"p","r","i","n","t","(">>)
              \/ Includes(pythonCode, <<"i","n","p","u","t","(">>)
              \/ Includes(pythonCode, <<"l","e","n","(">>)

\* the counting loop of a target over i, from 0 up to n
CountingLoop(t) ==
    CASE t = "go" -> <<"f","o","r"," ","i"," ",":","="," ","0",";"," ","i"," ","<"," ","n",
                       ";"," ","i","+","+"," ","{">>
      [] t = "php" -> <<"f","o","r"," ","(","$","i"," ","="," ","0",";"," ","$","i"," ","<",
                        " ","n",";"," ","$","i","+","+",")"," ","{">>
      [] t = "javascript" -> <<"f","o","r"," ","(","l","e","t"," ","i"," ","="," ","0",";",
                               " ","i"," ","<"," ","n",";"," ","i","+","+",")"," ","{">>
      [] t = "csharp" -> <<"f","o","r"," ","(","v","a","r"," ","i"," ","="," ","0",";"," ",
                           "i"," ","<"," ","n",";"," ","i","+","+",")"," ","{">>

\* C20: a loop header for i in range(n): becomes in every target the counting loop
\* that sets, tests and increments the same variable i against the same bound n
ForRangeIsCountingLoop ==
    (Published /\ Includes(pythonCode, <<"f","o","r"," ","i"," ","i","n"," ","r","a","n",
                                         "g","e","(","n",")",":">>)) =>
        \A t \in Targets :
            /\ Includes(translations[t], CountingLoop(t))
            /\ ~Includes(translations[t], <<"i","n"," ","r","a","n","g","e","(">>)

\* the append of y to the collection x, as each target writes it
AppendIdiom(t) ==
    CASE t = "go" -> <<"x"," ","="," ","a","p","p","e","n","d","(","x",","," ","y",")">>
      [] t = "php" -> <<"a","r","r","a","y","_","p","u","s","h","(","$","x",","," ","y",
                        ")">>
      [] t = "javascript" -> <<"x",".","p","u","s","h","(","y",")">>
      [] t = "csharp" -> <<"x",".","A","d","d","(","y",")">>

\* C21: a call x.append(y) becomes in every target the append idiom on the same
\* collection x and the same value y: Go reassigns x, the others change x in place
AppendKeepsCollection ==
    (Published /\ Includes(pythonCode, <<"x",".","a","p","p","e","n","d","(","y",")">>)) =>
        \A t \in Targets :
            /\ Includes(translations[t], AppendIdiom(t))
            /\ ~Includes(translations[t], <<".","a","p","p","e","n","d","(">>)

\* the parameter names of the definitions among the statements
ParameterNames == {<<"a">>, <<"i","n","d","e","x">>, <<"x">>}

\* the Go type the hints give a parameter name: the substrings of the name, then the
\* row of the kind the Context holds for it, then the numeric-array default
HintedGoType(name) ==
    IF Includes(name, <<"p","r","i","c","e">>) \/ Includes(name, <<"d","a","t","a">>) THEN <<"[","]","f","l","o","a","t","6","4">>
    ELSE IF Includes(name, <<"i","n","d","e","x">>) \/ Includes(name, <<"s","i","z","e">>) THEN <<"i","n","t">>
    ELSE IF getVariableType(context, name) \in DOMAIN typeMappingLib
         THEN typeMappingLib[getVariableType(context, name)].go
         ELSE <<"[","]","f","l","o","a","t","6","4">>

\* C22: where the Go translator has rewritten def f(p): into a declaration, the
\* declaration types the parameter p by the hints: the integer type for a name
\* containing index or size, the numeric array for price or data, otherwise the
\* type-mapping entry of the kind the Context inferred for p, and the numeric-array
\* default only when there is none
ParametersAreTypedByHints ==
    Published =>
        \A p \in ParameterNames :
            (/\ Includes(pythonCode, <<"d","e","f"," ","f","(">> \o p \o <<")",":">>)
             /\ Includes(translations["go"], <<"f","u","n","c"," ","f","(">>)) =>
                Includes(translations["go"], <<"f","u","n","c"," ","f","(">> \o p \o <<" ">> \o HintedGoType(p) \o <<")">>)

\* one test of a validator: whether its condition holds, and the warning it pushes
Check(holds, warning) == [holds |-> holds, warning |-> warning]

\* the tests of the validator of a target in a revision, each on its own, on a text
ChecksOf(rev, language, code) ==
    IF rev = "App.jsx"
    THEN CASE language = "go" ->
                {Check(/\ Includes(code, <<"f","u","n","c">>)
                       /\ ~Test(PatGoFuncResults, code)
                       /\ ~Test(PatGoFunc, code)
                       /\ ~Includes(code, <<"f","u","n","c"," ","m","a","i","n","(",")">>),
                       "Funcion GO necesita tipos en parametros"),
                 Check(/\ Includes(code, <<"f","m","t",".","P","r","i","n","t">>) \/ Includes(code, <<"f","m","t",".","S","c","a","n">>)
                       /\ ~Includes(code, <<"\"","f","m","t","\"">>),
                       "Falta import \"fmt\"")}
           [] language = "php" ->
                {Check(/\ Includes(code, <<"e","c","h","o">>) \/ Includes(code, <<"p","r","i","n","t">>)
                       /\ ~Includes(code, <<"<","?","p","h","p">>),
                       "Falta etiqueta de apertura PHP")}
           [] language = "javascript" -> {}
           [] language = "csharp" ->
                {Check(Includes(code, <<"C","o","n","s","o","l","e",".","W","r","i","t",
                                        "e">>) /\ ~Includes(code, <<"u","s","i","n","g"," ","S","y","s","t","e","m">>),
                       "Falta using System;"),
                 Check(Includes(code, <<"p","u","b","l","i","c"," ","s","t","a","t","i",
                                        "c">>) /\ ~Includes(code, <<"c","l","a","s","s">>),
                       "Necesita estar dentro de una clase")}
    ELSE CASE language = "go" ->
                {Check(Includes(code, <<"f","u","n","c">>) /\ ~Test(PatGoTypedParams, code),
                       "Funcion GO necesita tipos en parametros"),
                 Check(Includes(code, <<"f","u","n","c">>) /\ ~Test(PatGoReturnType, code),
                       "Funcion GO necesita especificar tipo de retorno"),
                 Check(/\ Includes(code, <<"f","m","t",".">>)
                       /\ ~Includes(code, <<"i","m","p","o","r","t">>)
                       /\ ~Includes(code, <<"\"","f","m","t","\"">>),
                       "Falta import \"fmt\""),
                 Check(Includes(code, <<"m","a","t","h",".">>) /\ ~Includes(code, <<"\"","m","a","t","h","\"">>),
                       "Falta import \"math\""),
                 Check(Includes(code, <<"f","u","n","c">>) /\ ~Includes(code, <<"e","r","r","o","r">>),
                       "Considerar anadir manejo de errores (Go idiomatico)"),
                 Check(/\ Includes(code, <<"[">>)
                       /\ Includes(code, <<":">>)
                       /\ ~Includes(code, <<"l","e","n","(">>),
                       "Verificar bounds en slice operations")}
           [] language = "php" ->
                {Check(Includes(code, <<"f","u","n","c","t","i","o","n">>) /\ ~Includes(code, <<"<","?","p","h","p">>),
                       "Falta etiqueta de apertura PHP")}
           [] language = "javascript" -> {}
           [] language = "csharp" ->
                {Check(Includes(code, <<"C","o","n","s","o","l","e",".","W","r","i","t","e",
                                        "L","i","n","e">>) /\ ~Includes(code, <<"u","s","i","n","g"," ","S","y","s","t","e","m">>),
                       "Falta using System;")}

\* the warnings of a target are those of the tests that hold on the text
WarningsAreOfHoldingTests(language, checks) ==
    /\ \A c \in checks : (c.warning \in Members(validationIssues[language])) <=> c.holds
    /\ (validationIssues[language] = <<>>) <=> (\A c \in checks : ~c.holds)

\* C23: the sequence a validator returns for a text contains the warning of a test
\* exactly when the condition of that test holds on the text, whatever the other
\* tests give, and it is empty exactly when no condition holds
ChecksAreIndependent ==
    (pending = FALSE) =>
        \A t \in Targets :
            WarningsAreOfHoldingTests(t, ChecksOf(version, t, returned[t].text))

\* C23: a Go text of part_000 on which the first two tests hold, the two tests of
\* the imports fail and the last two hold again, with the four warnings returned
LaterChecksAfterFailedOnes ==
    /\ pending = FALSE
    /\ version = "part_000"
    /\ returned["go"].text = <<"f","u","n","c","\n","y"," ","="," ","x","[","1",":","2",
                               "]">>
    /\ validationIssues["go"] = <<"Funcion GO necesita tipos en parametros",
                                  "Funcion GO necesita especificar tipo de retorno",
                                  "Considerar anadir manejo de errores (Go idiomatico)",
                                  "Verificar bounds en slice operations">>

\* the Context the translator of a target is given when the calls are made in the
\* order of handleTranslateAll
ContextInCodeOrder(t) ==
    CASE t = "go" -> FreshContext
      [] t = "php" -> contextAfter("go", FreshContext)
      [] t = "javascript" -> contextAfter("php", contextAfter("go", FreshContext))
      [] t = "csharp" ->
           contextAfter("javascript", contextAfter("php", contextAfter("go", FreshContext)))

\* what the translator of a target returns in that order
InCodeOrder(t) == translate(version, t, pythonCode, ContextInCodeOrder(t))

\* the eight calls have been made
AllCallsDone ==
    /\ raised = FALSE
    /\ DOMAIN returned = Targets
    /\ DOMAIN validationIssues = Targets

\* C24: whatever the order of the four translator calls and the four validator calls,
\* once all are done the four texts and the four warning sequences are those of the
\* calls made in the order of handleTranslateAll
PipelinesAreOrderInsensitive ==
    AllCallsDone =>
        \A t \in Targets :
            /\ returned[t] = InCodeOrder(t)
            /\ validationIssues[t] = validate(version, t, InCodeOrder(t).text)

\* C24: the eight calls done with the translators called in the reverse order, on a
\* source with a numeric-array idiom
CallsDoneInReverseOrder ==
    /\ AllCallsDone
    /\ history = <<"csharp", "javascript", "php", "go">>
    /\ pythonCode = <<"a"," ","="," ","n","p",".","a","r","r","a","y","(","d",")">>

\* C25: in a Go text of part_000, a package qualifier is declared: a text with mat.
\* imports the gonum mat package and a text with stat. imports the gonum stat package
QualifiersAreImported ==
    (Published /\ version = "part_000") =>
        /\ Includes(translations["go"], <<"m","a","t",".">>) =>
               Includes(translations["go"], <<"\"","g","o","n","u","m",".","o","r","g","/","v",
                                          "1","/","g","o","n","u","m","/","m","a","t","\"">>)
        /\ Includes(translations["go"], <<"s","t","a","t",".">>) =>
               Includes(translations["go"], <<"\"","g","o","n","u","m",".","o","r","g","/","v",
                                          "1","/","g","o","n","u","m","/","s","t","a","t",
                                          "\"">>)

\* C26: after a run the PHP text contains the opening tag <?php, the PHP validator has
\* returned no warning on it and the PHP score is the base score
PhpTagIsAlwaysPresent ==
    Published =>
        /\ Includes(translations["php"], <<"<","?","p","h","p">>)
        /\ validationIssues["php"] = <<>>
        /\ confidence["php"] = IF version = "App.jsx" THEN BaseScore ELSE BaseScoreLib
====
